---- MODULE Spec2Model ----
(***************************************************************************)
(* Model of the CFGen / celldreamer data pipeline and denoising network:   *)
(*   celldreamer/data/pert_loader.py      PertDataset, SubPertDataset      *)
(*   celldreamer/data/scrnaseq_loader.py  RNAseqLoader                     *)
(*   cfgen/data/utils.py                  compute_size_factor_lognorm      *)
(*   celldreamer/models/fm/denoising_model.py                              *)
(*                        get_timestep_embedding, MLPTimeStep, ResnetBlock *)
(* Python strings are sequences of character codes, so that split("+"),    *)
(* sorted(...) and f-string keys are computed as the code computes them.   *)
(* Python 0-based positions i are stored at position i + 1 of a sequence.  *)
(***************************************************************************)
EXTENDS Integers, Sequences, FiniteSets, TLC

VARIABLES
    source,   \* the AnnData object the datasets are constructed from
    args,     \* the arguments of the last PertDataset(...) call
    ds,       \* the PertDataset of that call, as __init__ left it
    ds2,      \* a second PertDataset constructed from the same source and arguments
    view,     \* the SubPertDataset of the last subset(...) call on ds
    out,      \* the last call on ds or view: its arguments and what it returned or raised
    rna,      \* the RNAseqLoader constructed from the source
    net,      \* the network module constructed (MLPTimeStep or ResnetBlock)
    fw        \* the last call into the network code: its arguments as the
              \* caller holds them afterwards, its locals and its result

vars == <<source, args, ds, ds2, view, out, rna, net, fw>>

----------------------------------------------------------------------------
(* Bounds of the model *)

\* largest number of observations (rows) of a source
MaxObs == 3

\* largest number of timesteps of a tensor handed to get_timestep_embedding
MaxT == 4

\* largest embedding_dim handed to get_timestep_embedding
MaxDim == 8

\* largest number of rows of a batch handed to a network
MaxBatch == 2

\* largest number of features of a layer of a ResnetBlock built on its own
MaxWidth == 2
MaxBlocks == 2

----------------------------------------------------------------------------
(* Character strings *)

\* "+" , the separator of combined perturbations (pert_loader.py:81)
PlusSep == <<43>>

\* "control" (pert_loader.py:208)
ControlName == <<99, 111, 110, 116, 114, 111, 108>>

\* "JQ1" (pert_loader.py:205)
JQ1Name == <<74, 81, 49>>

\* "(+)-JQ1" (pert_loader.py:206)
JQ1Alias == <<40, 43, 41, 45, 74, 81, 49>>

\* Python's < on str: code point by code point, a proper prefix is smaller
RECURSIVE StrLess(_, _)
StrLess(a, b) ==
    IF b = <<>> THEN FALSE
    ELSE IF a = <<>> THEN TRUE
    ELSE IF Head(a) < Head(b) THEN TRUE
    ELSE IF Head(a) > Head(b) THEN FALSE
    ELSE StrLess(Tail(a), Tail(b))

\* str.split(sep) for a one-character separator: the pieces between the
\* separators, empty pieces included
RECURSIVE SplitFrom(_, _, _)
SplitFrom(s, sep, cur) ==
    IF s = <<>> THEN <<cur>>
    ELSE IF Head(s) = sep[1] THEN <<cur>> \o SplitFrom(Tail(s), sep, <<>>)
    ELSE SplitFrom(Tail(s), sep, Append(cur, Head(s)))

Split(s, sep) == SplitFrom(s, sep, <<>>)

----------------------------------------------------------------------------
(* Sequences *)

Range(s) == {s[i] : i \in DOMAIN s}

\* the permutations of a finite set, as sequences: the orders in which a
\* Python set (hash order) can be iterated
Orders(S) ==
    {p \in [1..Cardinality(S) -> S] : \A i, j \in 1..Cardinality(S) : i # j => p[i] # p[j]}

\* insert x into the ascending sequence s, after the elements not above it
RECURSIVE InsertSorted(_, _)
InsertSorted(x, s) ==
    IF s = <<>> THEN <<x>>
    ELSE IF StrLess(x, Head(s)) THEN <<x>> \o s
    ELSE <<Head(s)>> \o InsertSorted(x, Tail(s))

\* sorted(iterable) on strings: ascending, every element kept
RECURSIVE SortedAcc(_, _)
SortedAcc(s, acc) ==
    IF s = <<>> THEN acc ELSE SortedAcc(Tail(s), InsertSorted(Head(s), acc))

Sorted(s) == SortedAcc(s, <<>>)

\* the first of each run of equal neighbours (numpy.unique on a sorted array)
RECURSIVE DropRepeats(_)
DropRepeats(s) ==
    IF Len(s) <= 1 THEN s
    ELSE IF s[1] = s[2] THEN DropRepeats(Tail(s))
    ELSE <<s[1]>> \o DropRepeats(Tail(s))

\* the distinct values in order of first appearance (pandas.unique)
RECURSIVE FirstAppearances(_, _)
FirstAppearances(s, acc) ==
    IF s = <<>> THEN acc
    ELSE FirstAppearances(Tail(s),
                          IF Head(s) \in Range(acc) THEN acc ELSE Append(acc, Head(s)))

NpUniqueUnsorted(s) == FirstAppearances(s, <<>>)

\* numpy.unique(values): the sorted distinct values
NpUnique(s) == DropRepeats(Sorted(s))

\* position (0-based) of x in s, -1 when absent
RECURSIVE IndexOfFrom(_, _, _)
IndexOfFrom(x, s, k) ==
    IF s = <<>> THEN -1
    ELSE IF Head(s) = x THEN k
    ELSE IndexOfFrom(x, Tail(s), k + 1)

IndexOf(x, s) == IndexOfFrom(x, s, 0)

\* max of a non-empty set of numbers
MaxOf(S) == CHOOSE m \in S : \A x \in S : x <= m

----------------------------------------------------------------------------
(* The source: an AnnData object (obs table, X, var_names, uns) *)

\* data.obs[col].values : the column, one value per observation
Column(data, col) == [i \in DOMAIN data.obs |-> data.obs[i][col]]

----------------------------------------------------------------------------
(* Python values *)

\* the attributes of an object that were never assigned, assigned None, or
\* assigned a value
AttrNames ==
    {"genes", "var_names", "perturbation_key", "dose_key", "covariate_keys",
     "smiles_key", "use_drugs_idx", "pert_categories", "de_genes",
     "drugs_names", "dose_names", "drugs_names_unique_sorted",
     "_drugs_name_to_idx", "drug_dict", "canon_smiles_unique_sorted",
     "max_num_perturbations", "drugs_idx", "dosages", "atomic_drugs_dict",
     "drugs", "covariate_names", "covariate_names_unique",
     "atomic_covars_dict", "covariates", "ctrl", "ctrl_name",
     "num_covariates", "num_genes", "num_drugs", "indices", "degs"}

\* self before __init__ assigns anything; err is the exception that left
\* __init__ ("none" while it runs), io the reads of the source so far,
\* lookups the observations whose gene set was looked up in de_genes
NewSelf ==
    [err |-> "none", io |-> <<>>, lookups |-> <<>>,
     st |-> [a \in AttrNames |-> "unset"],
     genes |-> <<>>, var_names |-> <<>>,
     perturbation_key |-> "None", dose_key |-> "None",
     covariate_keys |-> <<>>, use_drugs_idx |-> FALSE,
     pert_categories |-> <<>>, de_genes |-> <<>>,
     drugs_names |-> <<>>, dose_names |-> <<>>,
     drugs_names_unique_sorted |-> <<>>,
     drugs_name_to_idx |-> <<>>, drug_dict |-> <<>>,
     canon_smiles_unique_sorted |-> <<>>,
     max_num_perturbations |-> 0,
     drugs_idx |-> <<>>, dosages |-> <<>>,
     covariate_names |-> <<>>, covariate_names_unique |-> <<>>,
     atomic_covars_dict |-> <<>>, covariates |-> <<>>,
     ctrl |-> <<>>, ctrl_name |-> <<>>,
     num_covariates |-> <<>>, num_genes |-> 0, num_drugs |-> 0,
     indices |-> <<>>, degs |-> <<>>]

\* self.a = v for several attributes a
SetAttrs(s, names, status) ==
    [s EXCEPT !.st = [a \in AttrNames |-> IF a \in names THEN status ELSE s.st[a]]]

\* raise exc: nothing after it in __init__ runs
Raise(s, exc) == [s EXCEPT !.err = exc]

\* indx(a, i) of celldreamer.data.utils for a list of positions:
\* a[i] if a is not None else None
IndxList(a, idx) == [k \in DOMAIN idx |-> a[idx[k] + 1]]

----------------------------------------------------------------------------
(* PertDataset.__init__ *)

\* lines 45-63: read the AnnData, then set the plain attributes
ReadAndSetFields(data, a) ==
    LET s0 == NewSelf
        s1 == [s0 EXCEPT !.io = IF a.data = "path" THEN <<"sc.read", "X">> ELSE <<"X">>,
                         !.genes = data.X,
                         !.var_names = data.var_names,
                         !.perturbation_key = a.perturbation_key,
                         !.dose_key = a.dose_key,
                         !.covariate_keys =
                             IF a.covariate_keys.kind = "str"
                             THEN <<a.covariate_keys.keys[1]>>
                             ELSE a.covariate_keys.keys,
                         !.use_drugs_idx = a.use_drugs_idx]
        s2 == SetAttrs(s1, {"genes", "var_names", "smiles_key", "use_drugs_idx"}, "val")
        s3 == SetAttrs(s2, {"perturbation_key"},
                       IF a.perturbation_key = "None" THEN "none" ELSE "val")
        s4 == SetAttrs(s3, {"dose_key"}, IF a.dose_key = "None" THEN "none" ELSE "val")
    IN  SetAttrs(s4, {"covariate_keys"},
                 IF a.covariate_keys.kind = "None" THEN "none" ELSE "val")

\* the perturbation strings as they are, not split on "+"
DrugNamesWhole(drugs_names) == Range(drugs_names)

\* the set handed on in its iteration order, not sorted
DrugsNamesUnsorted(order) == order

\* lines 79-82: the tokens of all perturbation strings, put in a set
\* (iterated in the order `order`), then sorted
DrugTokens(drugs_names) ==
    UNION {Range(Split(drugs_names[i], PlusSep)) : i \in DOMAIN drugs_names}

DrugsNamesUniqueSorted(order) == Sorted(order)

\* lines 85-87: {name: idx for idx, name in enumerate(sorted)}; a later idx
\* overwrites an earlier one for the same name
DrugsNameToIdx(sorted) ==
    [n \in Range(sorted) |-> MaxOf({i \in 0..(Len(sorted) - 1) : sorted[i + 1] = n})]

\* the inverse dict with its keys counted from 1
DrugDictFromOne(name_to_idx) ==
    [i \in {name_to_idx[n] + 1 : n \in DOMAIN name_to_idx} |->
        CHOOSE n \in DOMAIN name_to_idx : name_to_idx[n] + 1 = i]

\* line 88: {val: key for key, val in name_to_idx.items()}
DrugDict(name_to_idx) ==
    [i \in {name_to_idx[n] : n \in DOMAIN name_to_idx} |->
        CHOOSE n \in DOMAIN name_to_idx : name_to_idx[n] = i]

\* the smallest number of drugs of an observation: min written for max
MinNumPerturbations(drugs_names) ==
    -MaxOf({-Len(Split(drugs_names[i], PlusSep)) : i \in DOMAIN drugs_names})

\* lines 96-98: max(len(name.split("+")) for name in drugs_names)
MaxNumPerturbations(drugs_names) ==
    MaxOf({Len(Split(drugs_names[i], PlusSep)) : i \in DOMAIN drugs_names})

\* drug_names_to_once_canon_smiles: every vocabulary drug resolves to exactly
\* one structure among the observations that carry it
SmilesOf(data, name) ==
    {data.obs[i].SMILES : i \in {j \in DOMAIN data.obs : data.obs[j].condition = name}}

CanonSmilesResolvable(data, names) ==
    \A k \in DOMAIN names : Cardinality(SmilesOf(data, names[k])) = 1

DrugNamesToOnceCanonSmiles(data, names) ==
    [k \in DOMAIN names |-> CHOOSE x \in SmilesOf(data, names[k]) : TRUE]

\* float(dosage) for the dose strings "d" and "d.d" (value in tenths);
\* anything else is Python's ValueError
IsDigit(c) == c \in 48..57

FloatParses(str) ==
    \/ Len(str) = 1 /\ IsDigit(str[1])
    \/ Len(str) = 3 /\ IsDigit(str[1]) /\ str[2] = 46 /\ IsDigit(str[3])

FloatTenths(str) ==
    IF Len(str) = 1 THEN 10 * (str[1] - 48) ELSE 10 * (str[1] - 48) + (str[3] - 48)

\* line 105: [self.drug_name_to_idx(drug) for drug in self.drugs_names]
DrugsIdx(name_to_idx, drugs_names) ==
    [i \in DOMAIN drugs_names |-> name_to_idx[drugs_names[i]]]

\* lines 66-125: the perturbation attributes. `order` is the order in which
\* the set of drug tokens is iterated when it is handed to sorted()
PreparePerturbations(s, data, a, order) ==
    IF s.err # "none" THEN s
    ELSE IF a.perturbation_key = "None"
    THEN SetAttrs(s, {"pert_categories", "de_genes", "drugs_names", "dose_names",
                      "drugs_names_unique_sorted", "atomic_drugs_dict",
                      "drug_dict", "drugs"}, "none")
    ELSE IF a.dose_key = "None" THEN Raise(s, "ValueError")
    ELSE
    LET names  == Column(data, "condition")
        doses  == Column(data, "dose")
        vocab  == DrugsNamesUniqueSorted(order)
        n2i    == DrugsNameToIdx(vocab)
        s1 == SetAttrs([s EXCEPT !.io = s.io \o <<"obs", "uns">>,
                                 !.de_genes = data.uns,
                                 !.drugs_names = names,
                                 !.dose_names = doses,
                                 !.drugs_names_unique_sorted = vocab,
                                 !.drugs_name_to_idx = n2i,
                                 !.drug_dict = DrugDict(n2i)],
                       {"pert_categories", "de_genes", "drugs_names", "dose_names",
                        "drugs_names_unique_sorted", "_drugs_name_to_idx",
                        "drug_dict"}, "val")
    IN  IF ~CanonSmilesResolvable(data, vocab) THEN Raise(s1, "ConfigurationError")
        ELSE
        LET s2 == SetAttrs([s1 EXCEPT !.canon_smiles_unique_sorted =
                                          DrugNamesToOnceCanonSmiles(data, vocab)],
                           {"canon_smiles_unique_sorted"}, "val")
        IN  IF names = <<>> THEN Raise(s2, "ValueError")   \* max() of no values
            ELSE
            LET s3 == SetAttrs([s2 EXCEPT !.max_num_perturbations =
                                              MaxNumPerturbations(names)],
                               {"max_num_perturbations"}, "val")
            IN  IF s3.max_num_perturbations # 1 THEN Raise(s3, "AssertionError")
                ELSE IF \E i \in DOMAIN names : names[i] \notin DOMAIN n2i
                THEN Raise(s3, "KeyError")
                ELSE
                LET s4 == SetAttrs([s3 EXCEPT !.drugs_idx = DrugsIdx(n2i, names)],
                                   {"drugs_idx"}, "val")
                IN  IF \E i \in DOMAIN doses : ~FloatParses(doses[i])
                    THEN Raise(s4, "ValueError")
                    ELSE SetAttrs([s4 EXCEPT !.dosages =
                                       [i \in DOMAIN doses |-> FloatTenths(doses[i])]],
                                  {"dosages"}, "val")

\* the row of a fitted OneHotEncoder for one value: 1 at the position of the
\* value among the encoder's (sorted) categories
OneHot(categories, value) ==
    [j \in DOMAIN categories |-> IF categories[j] = value THEN 1 ELSE 0]

\* a duplicate check that compares neighbouring keys only
HasAdjacentDuplicateKeys(keys) ==
    \E j \in 1..(Len(keys) - 1) : keys[j] = keys[j + 1]

\* line 129: len(covariate_keys) == len(set(covariate_keys))
HasDuplicateKeys(keys) == Len(keys) # Cardinality(Range(keys))

\* lines 127-161: the covariate attributes
PrepareCovariates(s, data, a) ==
    IF s.err # "none" THEN s
    ELSE IF a.covariate_keys.kind = "None" \/ s.covariate_keys = <<>>
    THEN SetAttrs(s, {"covariate_names", "covariate_names_unique",
                      "atomic_covars_dict", "covariates"}, "none")
    ELSE IF HasDuplicateKeys(s.covariate_keys) THEN Raise(s, "ValueError")
    ELSE IF data.obs = <<>>
    THEN \* lines 132-140 ran for the first key; the encoder fit on no rows raises
         Raise(SetAttrs([s EXCEPT !.io = s.io \o <<"obs">>,
                                  !.covariate_names = (s.covariate_keys[1] :> <<>>),
                                  !.covariate_names_unique = (s.covariate_keys[1] :> <<>>)],
                        {"covariate_names", "covariate_names_unique",
                         "atomic_covars_dict", "covariates"}, "val"),
               "ValueError")
    ELSE
    LET keys   == s.covariate_keys
        names  == [k \in Range(keys) |-> Column(data, k)]
        unique == [k \in Range(keys) |-> NpUnique(names[k])]
    IN  SetAttrs([s EXCEPT !.io = s.io \o <<"obs">>,
                           !.covariate_names = names,
                           !.covariate_names_unique = unique,
                           !.atomic_covars_dict =
                               [k \in Range(keys) |->
                                   [n \in Range(unique[k]) |-> OneHot(unique[k], n)]],
                           !.covariates =
                               [j \in DOMAIN keys |->
                                   [i \in DOMAIN data.obs |->
                                       OneHot(unique[keys[j]], names[keys[j]][i])]]],
                 {"covariate_names", "covariate_names_unique",
                  "atomic_covars_dict", "covariates"}, "val")

\* column == value: one boolean per row
EqMask(col, value) == [i \in DOMAIN col |-> col[i] = value]

\* np.where(mask)[0].tolist() : the positions of the true entries, ascending
RECURSIVE WhereFrom(_, _)
WhereFrom(mask, k) ==
    IF k > Len(mask) THEN <<>>
    ELSE (IF mask[k] THEN <<k - 1>> ELSE <<>>) \o WhereFrom(mask, k + 1)

Where(mask) == WhereFrom(mask, 1)

\* lines 190-197
Indices(data) ==
    LET control == Column(data, "control")
        split   == Column(data, "split")
    IN  [all     |-> [i \in DOMAIN data.obs |-> i - 1],
         control |-> Where(EqMask(control, 1)),
         treated |-> Where([i \in DOMAIN control |-> control[i] # 1]),
         train   |-> Where(EqMask(split, "train")),
         test    |-> Where(EqMask(split, "test")),
         ood     |-> Where(EqMask(split, "ood"))]

\* lines 163-197: control flags, control names, sizes, index lists
PrepareIndices(s, data, a) ==
    IF s.err # "none" THEN s
    ELSE
    LET ctrl_rows == Where(EqMask(Column(data, "control"), 1))
        s1 == SetAttrs([s EXCEPT !.ctrl = Column(data, "control"),
                                 !.ctrl_name =
                                     IF a.perturbation_key = "None" THEN <<>>
                                     ELSE NpUnique(IndxList(Column(data, "condition"),
                                                            ctrl_rows)),
                                 !.num_covariates =
                                     IF s.st["covariates"] = "val"
                                     THEN [j \in DOMAIN s.covariate_keys |->
                                              Len(s.covariate_names_unique[s.covariate_keys[j]])]
                                     ELSE <<0>>,
                                 !.num_genes = Len(s.var_names),
                                 !.num_drugs =
                                     IF s.st["drugs_names_unique_sorted"] = "val"
                                     THEN Len(s.drugs_names_unique_sorted) ELSE 0,
                                 !.indices = Indices(data)],
                       {"ctrl", "num_covariates", "num_genes", "num_drugs", "indices"},
                       "val")
    IN  SetAttrs(s1, {"ctrl_name"},
                 IF a.perturbation_key = "None" THEN "none" ELSE "val")

\* lines 205-206: the alias applied to the drug name before the lookup
AliasedDrug(drug) == IF drug = JQ1Name THEN JQ1Alias ELSE drug

\* line 212: f"{cov}_{drug}_1.0"
DegKey(cov, drug) == cov \o <<95>> \o drug \o <<95, 49, 46, 48>>

\* line 215: var_names.isin(genes) as a 0/1 tensor
DegMask(var_names, genes) ==
    [g \in DOMAIN var_names |-> IF var_names[g] \in genes THEN 1 ELSE 0]

\* dict.get(key, []) written for the subscript: a missing key gives no genes
DeGenesGet(de_genes, key) ==
    [err |-> "none", genes |-> IF key \in DOMAIN de_genes THEN de_genes[key] ELSE {}]

\* line 212: self.de_genes[key]; a missing key of the dict is Python's
\* KeyError, which nothing in __init__ catches
DeGenesLookup(de_genes, key) ==
    IF key \in DOMAIN de_genes THEN [err |-> "none", genes |-> de_genes[key]]
    ELSE [err |-> "KeyError", genes |-> {}]

\* lines 202-203 at observation i (1-based): the exception of reading the
\* covariate of the observation, "none" when it is read
DegCovError(s) ==
    IF s.st["covariate_names"] # "val" THEN "TypeError"
    ELSE IF "cell_type" \notin DOMAIN s.covariate_names THEN "KeyError"
    ELSE "none"

\* lines 202-212 at observation i: whether de_genes is subscripted
DegLooksUp(s, i) ==
    /\ DegCovError(s) = "none"
    /\ \/ s.st["drugs_names"] # "val"
       \/ AliasedDrug(s.drugs_names[i]) # ControlName     \* line 208

\* lines 202-216 at observation i: the exception raised, "none" otherwise
DegError(s, i) ==
    IF DegCovError(s) # "none" THEN DegCovError(s)
    ELSE IF ~DegLooksUp(s, i) THEN "none"
    ELSE IF s.st["de_genes"] # "val" THEN "TypeError"
    ELSE DeGenesLookup(s.de_genes,
                       DegKey(s.covariate_names["cell_type"][i],
                              AliasedDrug(s.drugs_names[i]))).err

\* lines 202-216 at observation i, when nothing is raised
DegRow(s, i) ==
    IF ~DegLooksUp(s, i) THEN DegMask(s.var_names, {})
    ELSE DegMask(s.var_names,
                 DeGenesLookup(s.de_genes,
                               DegKey(s.covariate_names["cell_type"][i],
                                      AliasedDrug(s.drugs_names[i]))).genes)

\* lines 199-217: one mask per observation, in order; the first exception
\* ends the loop; torch.stack of no rows is a RuntimeError
BuildDegs(s) ==
    IF s.err # "none" THEN s
    ELSE
    LET n      == Len(s.genes)
        failed == {i \in 1..n : DegError(s, i) # "none"}
        last   == IF failed = {} THEN n
                  ELSE CHOOSE i \in failed : \A j \in failed : i <= j
        looked == Where([i \in 1..last |-> DegLooksUp(s, i)])
        s1     == [s EXCEPT !.lookups = looked]
    IN  IF failed # {} THEN Raise(s1, DegError(s, last))
        ELSE IF n = 0 THEN Raise(s1, "RuntimeError")
        ELSE SetAttrs([s1 EXCEPT !.degs = [i \in 1..n |-> DegRow(s, i)]],
                      {"degs"}, "val")

\* PertDataset(data, perturbation_key, dose_key, covariate_keys, ...,
\* use_drugs_idx): the object as __init__ leaves it, with the exception that
\* ended it in err
PertDatasetInit(data, a, order) ==
    BuildDegs(
        PrepareIndices(
            PrepareCovariates(
                PreparePerturbations(ReadAndSetFields(data, a), data, a, order),
                data, a),
            data, a))

----------------------------------------------------------------------------
(* PertDataset.subset, SubPertDataset, __getitem__, __len__ *)

\* the rows of either list: | written for &
SubsetIndexSetUnion(d, split, condition) ==
    Range(d.indices[split]) \cup Range(d.indices[condition])

\* line 223: set(self.indices[split]) & set(self.indices[condition])
SubsetIndexSet(d, split, condition) ==
    Range(d.indices[split]) \cap Range(d.indices[condition])

\* a view before SubPertDataset.__init__ assigns anything; idx is the index
\* list handed to it, built the attributes assigned so far, holds what each
\* of them was assigned
NewView ==
    [err |-> "none", idx |-> <<>>, built |-> {}, holds |-> <<>>,
     genes |-> <<>>, drugs_idx |-> <<>>, dosages |-> <<>>, covariates |-> <<>>,
     drugs_names |-> <<>>, covariate_names |-> <<>>, covariate_keys |-> <<>>,
     use_drugs_idx |-> FALSE, ctrl_name |-> <<>>, degs |-> <<>>,
     num_genes |-> 0, num_drugs |-> 0]

\* lines 251-282: what an attribute of the view is assigned. "rows": a new
\* object made by indexing an attribute of the dataset with the index list
\* (tensor[list] and indx(a, list) copy the selected rows); "item": one
\* element of an attribute of the dataset; "same": the object that the
\* attribute of the dataset is. No attribute is assigned the index list
\* ("indices") or the dataset ("dataset").
ViewAttrKind(a) ==
    IF a \in {"genes", "drugs_idx", "dosages", "drugs", "covariates", "drugs_names",
              "pert_categories", "covariate_names"}
    THEN "rows"
    ELSE IF a = "ctrl_name" THEN "item"
    ELSE "same"

\* self.a = ... for several attributes a of the view
ViewSetAttrs(v, names) ==
    [v EXCEPT !.built = v.built \cup names,
              !.holds = [a \in v.built \cup names |-> ViewAttrKind(a)]]

\* lines 250-282: SubPertDataset(dataset, indices)
SubPertDatasetInit(d, indices) ==
    LET v0 == ViewSetAttrs([NewView EXCEPT !.idx = indices,
                                           !.covariate_keys = d.covariate_keys,
                                           !.genes = IndxList(d.genes, indices),
                                           !.use_drugs_idx = d.use_drugs_idx],
                           {"perturbation_key", "dose_key", "covariate_keys",
                            "smiles_key", "covars_dict", "genes", "use_drugs_idx"})
    IN  IF ~d.use_drugs_idx /\ d.st["atomic_drugs_dict"] = "unset"
        THEN [v0 EXCEPT !.err = "AttributeError"]
        ELSE
        LET v1 == ViewSetAttrs([v0 EXCEPT !.drugs_idx =
                                              IF d.use_drugs_idx
                                              THEN IndxList(d.drugs_idx, indices)
                                              ELSE <<>>,
                                          !.dosages =
                                              IF d.use_drugs_idx
                                              THEN IndxList(d.dosages, indices)
                                              ELSE <<>>],
                               IF d.use_drugs_idx THEN {"drugs_idx", "dosages"}
                               ELSE {"perts_dict", "drugs"})
        IN  IF d.st["covariates"] # "val" THEN [v1 EXCEPT !.err = "TypeError"]
            ELSE
            LET v2 == ViewSetAttrs([v1 EXCEPT !.covariates =
                                                  [j \in DOMAIN d.covariates |->
                                                      IndxList(d.covariates[j], indices)],
                                              !.drugs_names =
                                                  IndxList(d.drugs_names, indices),
                                              !.covariate_names =
                                                  [k \in Range(d.covariate_keys) |->
                                                      IndxList(d.covariate_names[k], indices)]],
                                   {"covariates", "drugs_names", "pert_categories",
                                    "covariate_names", "var_names", "de_genes"})
            IN  IF d.st["ctrl_name"] = "val" /\ d.ctrl_name = <<>>
                THEN [v2 EXCEPT !.err = "IndexError"]
                ELSE ViewSetAttrs([v2 EXCEPT !.ctrl_name = IF d.st["ctrl_name"] = "val"
                                                           THEN d.ctrl_name[1] ELSE <<>>,
                                             !.num_genes = d.num_genes,
                                             !.num_drugs = d.num_drugs,
                                             !.degs = d.degs],
                                  {"ctrl_name", "num_covariates", "num_genes",
                                   "num_drugs", "degs"})

\* the value of a call: what it returned, or the exception it raised
Returned(op, val) == [op |-> op, err |-> "none", val |-> val]
Raised(op, exc)   == [op |-> op, err |-> exc, val |-> <<>>]

\* lines 233-239: PertDataset.__getitem__(i)
DatasetGetItem(d, i) ==
    IF i >= Len(d.genes) THEN Raised("getitem", "IndexError")
    ELSE IF d.st["drugs_idx"] # "val" THEN Raised("getitem", "AttributeError")
    ELSE IF d.st["covariates"] # "val" THEN Raised("getitem", "TypeError")
    ELSE Returned("getitem",
            [X      |-> d.genes[i + 1],
             X_degs |-> d.degs[i + 1],
             y_drug |-> <<d.drugs_idx[i + 1], d.dosages[i + 1]>>,
             y_cov  |-> [k \in Range(d.covariate_keys) |->
                            d.covariates[IndexOf(k, d.covariate_keys) + 1][i + 1]]])

\* lines 284-291: SubPertDataset.__getitem__(i)
ViewGetItemValue(v, i) ==
    IF i >= Len(v.genes) THEN Raised("view_getitem", "IndexError")
    ELSE IF i >= Len(v.degs) THEN Raised("view_getitem", "IndexError")
    ELSE IF "drugs_idx" \notin v.built THEN Raised("view_getitem", "AttributeError")
    ELSE Returned("view_getitem",
            [X      |-> v.genes[i + 1],
             X_degs |-> v.degs[i + 1],
             y_drug |-> <<v.drugs_idx[i + 1], v.dosages[i + 1]>>,
             y_cov  |-> [k \in Range(v.covariate_keys) |->
                            v.covariates[IndexOf(k, v.covariate_keys) + 1][i + 1]]])

\* lines 226-231: drug_name_to_idx(drug_name); a missing key of the dict is
\* Python's KeyError
DrugNameToIdxValue(d, name) ==
    IF d.st["_drugs_name_to_idx"] # "val" THEN Raised("drug_name_to_idx", "AttributeError")
    ELSE IF name \notin DOMAIN d.drugs_name_to_idx
    THEN Raised("drug_name_to_idx", "KeyError")
    ELSE Returned("drug_name_to_idx", d.drugs_name_to_idx[name])

----------------------------------------------------------------------------
(* RNAseqLoader.__init__ *)

NewLoader ==
    [err |-> "none", io |-> <<>>, id2cov |-> <<>>, Y_cov |-> <<>>, sf_count |-> <<>>,
     log_size_factor_mu |-> <<>>, log_size_factor_sd |-> <<>>]

\* scrnaseq_loader.py:56 dict(zip(unique_cov, np.arange(len(unique_cov))))
Id2Cov(unique_cov) ==
    [n \in Range(unique_cov) |->
        MaxOf({i \in 0..(Len(unique_cov) - 1) : unique_cov[i + 1] = n})]

\* scrnaseq_loader.py:58 [zip_cov_cat[c] for c in cov]
YCov(zip_cov_cat, cov) == [i \in DOMAIN cov |-> zip_cov_cat[cov[i]]]

\* utils.py:52-58: for every category of every covariate, the number of
\* observations whose log size factors enter mean() and std()
SizeFactorCounts(data, id2cov) ==
    [k \in DOMAIN id2cov |->
        [n \in DOMAIN id2cov[k] |->
            Cardinality({i \in DOMAIN data.obs : data.obs[i][k] = n})]]

\* utils.py:56 tensor.mean() of n finite values: NaN for no value. The values
\* are logarithms of positive row sums; what is kept of a statistic is whether
\* it is a number
TorchMean(n) == IF n = 0 THEN "nan" ELSE "finite"

\* utils.py:56 tensor.std() of n finite values, with Bessel's correction
\* (divisor n - 1): NaN for fewer than two values
TorchStd(n) == IF n <= 1 THEN "nan" ELSE "finite"

\* utils.py:33-64 compute_size_factor_lognorm(adata, layer, id2cov): the two
\* dicts of per-category statistics; no statement of it raises
ComputeSizeFactorLognormValue(data, id2cov) ==
    LET counts == SizeFactorCounts(data, id2cov)
    IN  Returned("compute_size_factor_lognorm",
            [mean |-> [k \in DOMAIN id2cov |->
                          [n \in DOMAIN id2cov[k] |-> TorchMean(counts[k][n])]],
             sd   |-> [k \in DOMAIN id2cov |->
                          [n \in DOMAIN id2cov[k] |-> TorchStd(counts[k][n])]]])

\* scrnaseq_loader.py:29-63. The numeric tensors (X_norm, the scaler, the
\* means and deviations) are kept as what decides the control flow only.
RNAseqLoaderInit(data, keys, encoder_type) ==
    LET l0 == [NewLoader EXCEPT !.io = <<"sc.read", "X">>]
    IN  IF encoder_type \notin {"proportions", "log_gexp", "log_gexp_scaled"}
        THEN [l0 EXCEPT !.err = "NotImplementedError"]
        ELSE IF keys.kind = "None" THEN [l0 EXCEPT !.err = "TypeError"]
        ELSE
        LET id2cov == [k \in Range(keys.keys) |-> Id2Cov(NpUnique(Column(data, k)))]
        IN  [l0 EXCEPT !.io = l0.io \o <<"obs">>,
                       !.id2cov = id2cov,
                       !.Y_cov = [k \in Range(keys.keys) |-> YCov(id2cov[k], Column(data, k))],
                       !.sf_count = SizeFactorCounts(data, id2cov),
                       !.log_size_factor_mu =
                           ComputeSizeFactorLognormValue(data, id2cov).val.mean,
                       !.log_size_factor_sd =
                           ComputeSizeFactorLognormValue(data, id2cov).val.sd]

----------------------------------------------------------------------------
(* denoising_model.py: tensors *)

\* A tensor is [shape |-> <<d1, ..., dn>>, at |-> its entries]: a number for
\* no dimension, a sequence of numbers for one, a sequence of rows for two.
\* Where only the shape decides what the code does, the shape stands alone.

\* tensor.squeeze(): every dimension of size 1 is dropped
RECURSIVE Squeeze(_)
Squeeze(shape) ==
    IF shape = <<>> THEN <<>>
    ELSE IF Head(shape) = 1 THEN Squeeze(Tail(shape))
    ELSE <<Head(shape)>> \o Squeeze(Tail(shape))

\* n dimensions of size 1
Ones(n) == [k \in 1..n |-> 1]

\* base/utils.py:16 unsqueeze_right(x, num_dims): x.view(x.shape + (1,) * num_dims);
\* (1,) * num_dims is () for num_dims <= 0
UnsqueezeRight(shape, num_dims) ==
    shape \o Ones(IF num_dims > 0 THEN num_dims ELSE 0)

\* t.repeat((rows,) + (1,) * (t.ndim - 1)) for a t with shape[0] = 1
RepeatRows(shape, rows) == <<shape[1] * rows>> \o Tail(shape)

\* the shape of a + b under broadcasting, <<-1>> when the shapes do not
\* broadcast (RuntimeError); the shorter shape is padded with 1 on the left
Broadcast(a, b) ==
    LET n  == IF Len(a) > Len(b) THEN Len(a) ELSE Len(b)
        pa == Ones(n - Len(a)) \o a
        pb == Ones(n - Len(b)) \o b
    IN  IF \E k \in 1..n : pa[k] # pb[k] /\ pa[k] # 1 /\ pb[k] # 1 THEN <<-1>>
        ELSE [k \in 1..n |-> IF pa[k] = 1 THEN pb[k] ELSE pa[k]]

----------------------------------------------------------------------------
(* denoising_model.py: get_timestep_embedding *)

\* line 48: timesteps *= 1000.0
TimestepScale == 1000

\* lines 29-30: max_timescale=10_000 and min_timescale=1, as powers of ten
MaxTimescaleLog10 == 4
MinTimescaleLog10 == 0

\* lines 46-47: the two assertions, on the shape of timesteps
GetTimestepEmbeddingError(shape, embedding_dim) ==
    IF Len(shape) # 1 THEN "AssertionError"
    ELSE IF embedding_dim % 2 # 0 THEN "AssertionError"
    ELSE "none"

\* lines 49-57: (T, D/2) sines next to (T, D/2) cosines
GetTimestepEmbeddingShape(shape, embedding_dim) ==
    <<shape[1], (embedding_dim \div 2) + (embedding_dim \div 2)>>

\* lines 50-55: torch.logspace(-log10(min), -log10(max), n)[k - 1], k in 1..n:
\* the power of ten 10^(num/den), kept as the fraction <<num, den>> in lowest
\* terms; one step gives the start alone
InvTimescale(k, n) ==
    LET start == -MinTimescaleLog10
        stop  == -MaxTimescaleLog10
        num   == start * (n - 1) + (k - 1) * (stop - start)
        den   == n - 1
        g     == IF n = 1 \/ num = 0 THEN 1
                 ELSE CHOOSE d \in 1..den :
                          /\ num % d = 0 /\ den % d = 0
                          /\ \A e \in (d + 1)..den : ~(num % e = 0 /\ den % e = 0)
    IN  IF n = 1 THEN <<start, 1>>
        ELSE IF num = 0 THEN <<0, 1>>
        ELSE <<num \div g, den \div g>>

\* sine first at odd columns, cosine at even ones: the interleaved layout
EmbeddingEntryInterleaved(t, j, n) ==
    IF j % 2 = 1 THEN [f |-> "sin", t |-> t, w |-> InvTimescale((j + 1) \div 2, n)]
    ELSE [f |-> "cos", t |-> t, w |-> InvTimescale(j \div 2, n)]

\* lines 56-57: column j (from 1) of torch.cat([emb.sin(), emb.cos()], dim=1)
\* for the scaled timestep t and n = D/2 timescales: sin(t * w) or cos(t * w)
EmbeddingEntry(t, j, n) ==
    IF j <= n THEN [f |-> "sin", t |-> t, w |-> InvTimescale(j, n)]
    ELSE [f |-> "cos", t |-> t, w |-> InvTimescale(j - n, n)]

\* the call get_timestep_embedding(timesteps, embedding_dim): the tensor of
\* the caller after the call (line 48 multiplies it in place), and the
\* embedding returned or the exception raised
GetTimestepEmbeddingValue(timesteps, embedding_dim) ==
    IF GetTimestepEmbeddingError(timesteps.shape, embedding_dim) # "none"
    THEN [op |-> "get_timestep_embedding", timesteps |-> timesteps,
          embedding_dim |-> embedding_dim, after |-> timesteps,
          err |-> GetTimestepEmbeddingError(timesteps.shape, embedding_dim),
          val |-> <<>>]
    ELSE
    LET scaled == [timesteps EXCEPT
                      !.at = [i \in DOMAIN timesteps.at |-> timesteps.at[i] * TimestepScale]]
        n      == embedding_dim \div 2
        shape  == GetTimestepEmbeddingShape(timesteps.shape, embedding_dim)
    IN  [op |-> "get_timestep_embedding", timesteps |-> timesteps,
         embedding_dim |-> embedding_dim, after |-> scaled, err |-> "none",
         val |-> [shape |-> shape,
                  at |-> [i \in 1..shape[1] |->
                             [j \in 1..shape[2] |-> EmbeddingEntry(scaled.at[i], j, n)]]]]

----------------------------------------------------------------------------
(* denoising_model.py: Linear, zero_init, ResnetBlock *)

\* layer_utils.Linear(in_features, out_features) as its own initialisation
\* leaves it: a weight matrix (out rows of in columns) and a bias vector,
\* here filled with the values w0 and b0
NewLinear(n_in, n_out, w0, b0) ==
    [n_in |-> n_in, n_out |-> n_out,
     weight |-> [o \in 1..n_out |-> [k \in 1..n_in |-> w0]],
     bias |-> [o \in 1..n_out |-> b0]]

RECURSIVE Dot(_, _)
Dot(a, b) == IF a = <<>> THEN 0 ELSE Head(a) * Head(b) + Dot(Tail(a), Tail(b))

\* Linear.forward on the rows of a 2-D tensor: x W^T + b
LinearApply(lin, rows) ==
    [i \in DOMAIN rows |->
        [o \in 1..lin.n_out |-> Dot(rows[i], lin.weight[o]) + lin.bias[o]]]

\* a layer made for n_in features applied to a tensor of another width, or
\* to a tensor without dimensions: RuntimeError
WidthError(n_in, shape) ==
    IF shape = <<>> THEN "RuntimeError"
    ELSE IF shape[Len(shape)] # n_in THEN "RuntimeError"
    ELSE "none"

\* the shape of layer(x) for a layer from n_in to n_out features
WithWidth(shape, n_out) == [shape EXCEPT ![Len(shape)] = n_out]

\* a zero_init that sets the weight and leaves the bias as it was
ZeroInitWeightOnly(module) ==
    [module EXCEPT !.weight = [o \in DOMAIN module.weight |->
                                  [k \in DOMAIN module.weight[o] |-> 0]]]

\* lines 10-23: zero_init(module): weight and bias filled with 0
ZeroInit(module) ==
    [module EXCEPT !.weight = [o \in DOMAIN module.weight |->
                                  [k \in DOMAIN module.weight[o] |-> 0]],
                   !.bias = [o \in DOMAIN module.bias |-> 0]]

\* lines 238-289: ResnetBlock(in_dim, out_dim, added_dimensions, dropout_prob,
\* embedding_dim, normalization, embed_condition). out_dim and embedding_dim
\* are <<>> for None and <<n>> for n; init gives the values w0, b0 that
\* Linear's own initialisation leaves in a layer. A module is in training
\* mode after construction.
ResnetBlockInit(c, init) ==
    LET out_dim == IF c.out_dim = <<>> THEN c.in_dim ELSE c.out_dim[1]
        b0 == [kind |-> "ResnetBlock", err |-> "none", training |-> TRUE,
               in_dim |-> c.in_dim, out_dim |-> out_dim,
               added_dimensions |-> c.added_dimensions,
               embed_condition |-> c.embed_condition,
               embedding_dim |-> c.embedding_dim,
               normalization |-> c.normalization,
               dropout |-> c.dropout,
               attrs |-> {"embed_condition", "embedding_dim", "out_dim", "net1"},
               cond_proj |-> <<>>, net2 |-> <<>>, skip_proj |-> <<>>]
    IN  IF c.embed_condition /\ c.embedding_dim = <<>>
        THEN [b0 EXCEPT !.err = "TypeError"]     \* Linear(None, out_dim)
        ELSE
        LET b1 == IF c.embed_condition
                  THEN [b0 EXCEPT !.cond_proj =
                                      NewLinear(c.embedding_dim[1], out_dim, init.w0, init.b0),
                                  !.attrs = b0.attrs \cup {"cond_proj"}]
                  ELSE b0
            b2 == [b1 EXCEPT !.net2 = ZeroInit(NewLinear(out_dim + c.added_dimensions,
                                                         out_dim, init.w0, init.b0)),
                             !.attrs = b1.attrs \cup {"net2"}]
        IN  IF c.in_dim # out_dim
            THEN [b2 EXCEPT !.skip_proj = NewLinear(c.in_dim, out_dim, init.w0, init.b0),
                            !.attrs = b2.attrs \cup {"skip_proj"}]
            ELSE b2

\* nn.BatchNorm1d in training mode on a batch of one row: ValueError
\* ("Expected more than 1 value per channel when training")
NormError(block, n_features, shape) ==
    IF block.normalization \notin {"layer", "batch"} THEN "none"
    ELSE IF WidthError(n_features, shape) # "none" THEN "RuntimeError"
    ELSE IF block.normalization = "batch" /\ block.training /\ shape[1] = 1
    THEN "ValueError"
    ELSE "none"

\* lines 303-310: the shape of h after net1 and the conditioning, with the
\* exception raised on the way
ResnetBlockConditioned(block, xshape, embshape) ==
    IF Len(xshape) # 2 THEN [err |-> "RuntimeError", shape |-> <<>>]
    ELSE IF NormError(block, block.in_dim, xshape) # "none"
    THEN [err |-> NormError(block, block.in_dim, xshape), shape |-> <<>>]
    ELSE IF WidthError(block.in_dim, xshape) # "none"
    THEN [err |-> "RuntimeError", shape |-> <<>>]
    ELSE
    LET h1 == WithWidth(xshape, block.out_dim)
    IN  IF block.embed_condition
        THEN IF WidthError(block.cond_proj.n_in, embshape) # "none"
             THEN [err |-> "RuntimeError", shape |-> <<>>]
             ELSE IF Broadcast(h1, WithWidth(embshape, block.out_dim)) = <<-1>>
             THEN [err |-> "RuntimeError", shape |-> <<>>]
             ELSE [err |-> "none",
                   shape |-> Broadcast(h1, WithWidth(embshape, block.out_dim))]
        ELSE IF Len(embshape) # 2 THEN [err |-> "RuntimeError", shape |-> <<>>]
             ELSE IF embshape[1] # h1[1] THEN [err |-> "RuntimeError", shape |-> <<>>]
             ELSE [err |-> "none", shape |-> <<h1[1], h1[2] + embshape[2]>>]

\* lines 291-322 on shapes with the assertion of line 320 left out: x + h
\* broadcasts
ResnetBlockForwardUnasserted(block, xshape, embshape) ==
    LET c == ResnetBlockConditioned(block, xshape, embshape)
        n2 == block.out_dim + block.added_dimensions
        no == [err |-> "none", shape |-> <<>>, pre |-> c.shape, h |-> <<>>, skip |-> <<>>]
    IN  IF c.err # "none" THEN [no EXCEPT !.err = c.err, !.pre = <<>>]
        ELSE IF NormError(block, n2, c.shape) # "none"
        THEN [no EXCEPT !.err = NormError(block, n2, c.shape)]
        ELSE IF WidthError(n2, c.shape) # "none" THEN [no EXCEPT !.err = "RuntimeError"]
        ELSE
        LET h == WithWidth(c.shape, block.out_dim)
            x == IF xshape[2] # block.out_dim THEN WithWidth(xshape, block.out_dim)
                 ELSE xshape
        IN  IF xshape[2] # block.out_dim /\ "skip_proj" \notin block.attrs
            THEN [no EXCEPT !.err = "AttributeError", !.h = h]
            ELSE IF Broadcast(x, h) = <<-1>>
            THEN [no EXCEPT !.err = "RuntimeError", !.h = h, !.skip = x]
            ELSE [no EXCEPT !.shape = Broadcast(x, h), !.h = h, !.skip = x]

\* lines 291-322 on shapes: the shape of the tensor the block returns, the
\* shape of what its second projection is given (pre) and returns (h), the
\* shape of the skip-adjusted input (skip), and the exception raised
ResnetBlockForwardShape(block, xshape, embshape) ==
    LET c == ResnetBlockConditioned(block, xshape, embshape)
        n2 == block.out_dim + block.added_dimensions
        no == [err |-> "none", shape |-> <<>>, pre |-> c.shape, h |-> <<>>, skip |-> <<>>]
    IN  IF c.err # "none" THEN [no EXCEPT !.err = c.err, !.pre = <<>>]
        ELSE IF NormError(block, n2, c.shape) # "none"
        THEN [no EXCEPT !.err = NormError(block, n2, c.shape)]
        ELSE IF WidthError(n2, c.shape) # "none" THEN [no EXCEPT !.err = "RuntimeError"]
        ELSE
        LET h == WithWidth(c.shape, block.out_dim)
            x == IF xshape[2] # block.out_dim THEN WithWidth(xshape, block.out_dim)
                 ELSE xshape
        IN  IF xshape[2] # block.out_dim /\ "skip_proj" \notin block.attrs
            THEN [no EXCEPT !.err = "AttributeError", !.h = h]
            ELSE IF x # h THEN [no EXCEPT !.err = "AssertionError", !.h = h, !.skip = x]
            ELSE [no EXCEPT !.shape = h, !.h = h, !.skip = x]

\* lines 291-322 on values. x is a 2-D tensor; pre holds the entries that
\* the normalisation, SiLU and dropout of net2 hand to its Linear (they
\* depend on weights and on functions that are not computed here, so any
\* entries of the right shape are possible)
ResnetBlockForwardValue(block, x, embshape, pre) ==
    LET r == ResnetBlockForwardShape(block, x.shape, embshape)
    IN  IF r.err # "none"
        THEN [op |-> "block_forward", x |-> x, emb |-> embshape, err |-> r.err,
              h2 |-> <<>>, val |-> <<>>]
        ELSE
        LET h2   == LinearApply(block.net2, pre)
            skip == IF x.shape[2] # block.out_dim THEN LinearApply(block.skip_proj, x.at)
                    ELSE x.at
        IN  [op |-> "block_forward", x |-> x, emb |-> embshape, err |-> "none",
             h2 |-> h2,
             val |-> [shape |-> r.shape,
                      at |-> [i \in DOMAIN skip |->
                                 [o \in DOMAIN skip[i] |-> skip[i][o] + h2[i][o]]]]]

----------------------------------------------------------------------------
(* denoising_model.py: MLPTimeStep *)

\* line 80: conditioning_probability=0.8, in tenths
DefaultConditioningProbability == 8

\* lines 111, 113, 152: embedding_dim * 4
EmbeddingUpsample == 4

\* lines 106-137: added_dimensions
AddedDimensions(c) ==
    (IF c.embed_time THEN 0 ELSE 1)
    + (IF c.model_type = "conditional_latent" /\ ~c.embed_size_factor THEN 1 ELSE 0)
    + (IF c.conditional /\ ~c.embed_condition THEN Len(c.covariate_list) ELSE 0)

\* lines 61-167: MLPTimeStep(...). n_cond is <<>> for None, else the width
\* of the encoding of every covariate it names; modality_list is <<>> for
\* None or for no modality. The sub-modules are kept by the widths they
\* were made for.
MLPTimeStepInit(c, init) ==
    LET wide == c.embedding_dim * EmbeddingUpsample
        n0 == [kind |-> "MLPTimeStep", err |-> "none", training |-> TRUE,
               in_dim |-> c.in_dim, hidden_dim |-> c.hidden_dim,
               model_type |-> c.model_type, embed_time |-> c.embed_time,
               embed_size_factor |-> c.embed_size_factor,
               embedding_dim |-> c.embedding_dim,
               embed_condition |-> c.embed_condition,
               conditional |-> c.conditional, multimodal |-> c.multimodal,
               is_binarized |-> c.is_binarized,
               covariate_list |-> c.covariate_list,
               modality_list |-> c.modality_list,
               conditioning_probability |-> c.conditioning_probability,
               normalization |-> c.normalization,
               added_dimensions |-> AddedDimensions(c),
               attrs |-> (IF c.embed_time THEN {"time_embedder"} ELSE {})
                         \cup (IF c.model_type = "conditional_latent" /\ c.embed_size_factor
                               THEN {"size_factor_embedder"} ELSE {})
                         \cup (IF c.conditional THEN {"condition_embedder"} ELSE {}),
               condition_embedder |-> <<>>, blocks |-> <<>>]
    IN  IF c.conditional /\ c.embed_condition /\ c.covariate_list # <<>> /\ c.n_cond = <<>>
        THEN [n0 EXCEPT !.err = "TypeError"]      \* None[covariate]
        ELSE IF /\ c.conditional /\ c.embed_condition
                /\ \E k \in DOMAIN c.covariate_list : c.covariate_list[k] \notin DOMAIN c.n_cond
        THEN [n0 EXCEPT !.err = "KeyError"]
        ELSE
        LET n1 == IF c.conditional /\ c.embed_condition
                  THEN [n0 EXCEPT !.condition_embedder =
                                      [v \in Range(c.covariate_list) |->
                                          [n_in |-> c.n_cond[v], n_out |-> wide]]]
                  ELSE n0
        IN  [n1 EXCEPT !.blocks =
                [k \in 1..c.n_blocks |->
                    ResnetBlockInit([in_dim |-> c.hidden_dim, out_dim |-> <<c.hidden_dim>>,
                                     added_dimensions |-> AddedDimensions(c),
                                     dropout |-> c.dropout,
                                     embedding_dim |-> <<wide>>,
                                     normalization |-> c.normalization,
                                     embed_condition |-> c.embed_condition], init)]]

\* torch.cat([a, b], dim=1) on shapes; <<-1>> when it raises RuntimeError
Cat1(a, b) ==
    IF Len(a) # Len(b) \/ Len(a) < 2 THEN <<-1>>
    ELSE IF \E k \in DOMAIN a : k # 2 /\ a[k] # b[k] THEN <<-1>>
    ELSE [a EXCEPT ![2] = a[2] + b[2]]

\* the locals of forward(x, t, l, y, inference, unconditional, covariate)
\* when it is entered. Of the arguments x, t and l (or l[mod]) are shapes, y
\* maps each covariate to the shape of its encoding, covariate is <<>> for
\* None. emb is the running embedding: unbound until assigned, then its shape
\* and what was added into it.
ForwardEntered(in) ==
    [op |-> "forward", in |-> in, err |-> "none", stage |-> "entered",
     t |-> <<>>, time_emb |-> <<>>,
     emb |-> [bound |-> FALSE, shape |-> <<>>, terms |-> {}],
     draws |-> 0, is_conditioned |-> 0, covariate |-> <<>>,
     blocks |-> <<>>, pred |-> <<>>]

FwRaise(f, exc) == [f EXCEPT !.err = exc]

\* emb = emb + e for a tensor e of the given shape, named term
FwAddToEmb(f, shape, term) ==
    IF ~f.emb.bound THEN FwRaise(f, "UnboundLocalError")
    ELSE IF Broadcast(f.emb.shape, shape) = <<-1>> THEN FwRaise(f, "RuntimeError")
    ELSE [f EXCEPT !.emb.shape = Broadcast(f.emb.shape, shape),
                   !.emb.terms = f.emb.terms \cup {term}]

\* emb = torch.cat([emb, e], dim=1)
FwCatToEmb(f, shape, term) ==
    IF ~f.emb.bound THEN FwRaise(f, "UnboundLocalError")
    ELSE IF Cat1(f.emb.shape, shape) = <<-1>> THEN FwRaise(f, "RuntimeError")
    ELSE [f EXCEPT !.emb.shape = Cat1(f.emb.shape, shape),
                   !.emb.terms = f.emb.terms \cup {term}]

\* lines 171-172: a t with one row is repeated over the rows of x
FwRepeat(model, f) ==
    IF f.in.t = <<>> \/ f.in.x = <<>> THEN FwRaise(f, "IndexError")
    ELSE [f EXCEPT !.t = IF f.in.t[1] = 1 THEN RepeatRows(f.in.t, f.in.x[1]) ELSE f.in.t,
                   !.stage = "repeated"]

\* lines 175-183: the time embedding
FwTime(model, f) ==
    IF f.err # "none" THEN f
    ELSE IF model.embed_time
    THEN LET sq == Squeeze(f.t)     \* line 179: t_for_embeddings.squeeze()
         IN  IF GetTimestepEmbeddingError(sq, model.embedding_dim) # "none"
             THEN FwRaise(f, GetTimestepEmbeddingError(sq, model.embedding_dim))
             ELSE LET e == WithWidth(GetTimestepEmbeddingShape(sq, model.embedding_dim),
                                     model.embedding_dim * EmbeddingUpsample)
                  IN  [f EXCEPT !.time_emb = e,
                                !.emb = [bound |-> TRUE, shape |-> e, terms |-> {"time"}],
                                !.stage = "time"]
    ELSE IF Len(f.t) # Len(f.in.x)
    THEN [f EXCEPT !.emb = [bound |-> TRUE,
                            shape |-> UnsqueezeRight(f.t, Len(f.in.x) - Len(f.t)),
                            terms |-> {"time"}],
                   !.stage = "time"]
    ELSE [f EXCEPT !.stage = "time"]

\* line 186: torch.bernoulli(torch.tensor([p])).item(): the values one draw
\* with probability p (in tenths) can give
BernoulliOutcomes(p) ==
    IF p = 0 THEN {0} ELSE IF p = 10 THEN {1} ELSE {0, 1}

\* the non-embedded covariate concatenated to emb, not refused
FwNotEmbeddedConcatenates(f, cov) ==
    IF cov \notin DOMAIN f.in.y THEN FwRaise(f, "KeyError")
    ELSE FwCatToEmb(f, f.in.y[cov], cov)

\* line 194: the covariate is not embedded: raise NotImplementedError
FwNotEmbedded(f, cov) == FwRaise(f, "NotImplementedError")

\* a draw made whether or not the call is an inference call
FwDrawsAlways(f, draw) ==
    [f EXCEPT !.draws = 1, !.is_conditioned = draw]

\* line 186: one Bernoulli draw for the call unless inference, then 1.
FwDraws(f, draw) ==
    IF f.in.inference THEN [f EXCEPT !.draws = 0, !.is_conditioned = 1]
    ELSE [f EXCEPT !.draws = 1, !.is_conditioned = draw]

\* lines 186-194: the conditioning. draw is what the Bernoulli draw gives if
\* it is made, choice what np.random.choice(covariate_list) gives if it is
\* called
FwCondition(model, f, draw, choice) ==
    IF f.err # "none" THEN f
    ELSE
    LET f1 == [FwDraws(f, draw) EXCEPT !.stage = "conditioned"]
    IN  IF ~(model.conditional /\ f1.is_conditioned # 0 /\ ~f.in.unconditional) THEN f1
        ELSE IF ~model.embed_condition
        THEN FwNotEmbedded(f1, IF f.in.covariate = <<>> THEN choice ELSE f.in.covariate[1])
        ELSE IF f.in.covariate = <<>> /\ model.covariate_list = <<>>
        THEN FwRaise(f1, "ValueError")               \* np.random.choice of no entries
        ELSE
        LET cov == IF f.in.covariate = <<>> THEN choice ELSE f.in.covariate[1]
            f2  == [f1 EXCEPT !.covariate = <<cov>>]
        IN  IF cov \notin DOMAIN model.condition_embedder THEN FwRaise(f2, "KeyError")
            ELSE IF cov \notin DOMAIN f.in.y THEN FwRaise(f2, "KeyError")
            ELSE IF WidthError(model.condition_embedder[cov].n_in, f.in.y[cov]) # "none"
            THEN FwRaise(f2, "RuntimeError")
            ELSE FwAddToEmb(f2, WithWidth(f.in.y[cov], model.condition_embedder[cov].n_out),
                            cov)

\* lines 201-204 and 211-214: the size factor squeezed, normalised, embedded
\* and added to emb
FwEmbedSizeFactor(model, f, lshape, term) ==
    LET sq == Squeeze(lshape)
    IN  IF GetTimestepEmbeddingError(sq, model.embedding_dim) # "none"
        THEN FwRaise(f, GetTimestepEmbeddingError(sq, model.embedding_dim))
        ELSE FwAddToEmb(f, WithWidth(GetTimestepEmbeddingShape(sq, model.embedding_dim),
                                     model.embedding_dim * EmbeddingUpsample), term)

\* lines 199-208: the modalities in turn; l maps each modality to its size
\* factor. In the branch without embedding, line 207 rebinds l to a tensor,
\* and l[mod] of line 208 then subscripts a tensor with a string: IndexError
RECURSIVE FwSizeFactorMods(_, _, _)
FwSizeFactorMods(model, f, mods) ==
    IF f.err # "none" \/ mods = <<>> THEN f
    ELSE
    LET mod == Head(mods)
    IN  IF ~f.in.l.is_dict THEN FwRaise(f, "IndexError")
        ELSE IF mod \notin DOMAIN f.in.l.of THEN FwRaise(f, "KeyError")
        ELSE IF model.embed_size_factor
        THEN FwSizeFactorMods(model, FwEmbedSizeFactor(model, f, f.in.l.of[mod], mod),
                              Tail(mods))
        ELSE IF Len(f.in.l.of[mod]) # Len(f.in.x) THEN FwRaise(f, "IndexError")
        ELSE FwSizeFactorMods(model, FwCatToEmb(f, f.in.l.of[mod], mod), Tail(mods))

\* lines 197-218: the size factor. l is a tensor (is_dict false, its shape in
\* shape) or a dict of tensors (is_dict true, the shapes in of)
FwSizeFactor(model, f) ==
    IF f.err # "none" THEN f
    ELSE IF model.model_type # "conditional_latent" THEN [f EXCEPT !.stage = "sized"]
    ELSE IF model.multimodal /\ ~model.is_binarized
    THEN LET g == FwSizeFactorMods(model, f, model.modality_list)
         IN  IF g.err # "none" THEN g ELSE [g EXCEPT !.stage = "sized"]
    ELSE IF f.in.l.is_dict THEN FwRaise(f, "AttributeError")
    ELSE
    LET g == IF model.embed_size_factor
             THEN FwEmbedSizeFactor(model, f, f.in.l.shape, "size")
             ELSE FwCatToEmb(f, UnsqueezeRight(f.in.l.shape,
                                               Len(f.in.x) - Len(f.in.l.shape)), "size")
    IN  IF g.err # "none" THEN g ELSE [g EXCEPT !.stage = "sized"]

\* lines 222-223: the blocks in turn on h, each given emb; calls keeps, for
\* every block that was called, what it was given and what it did
RECURSIVE FwBlocksFrom(_, _, _, _)
FwBlocksFrom(model, f, k, h) ==
    IF k > Len(model.blocks) THEN [err |-> "none", shape |-> h, calls |-> <<>>]
    ELSE IF ~f.emb.bound
    THEN [err |-> "UnboundLocalError", shape |-> <<>>, calls |-> <<>>]
    ELSE LET r    == ResnetBlockForwardShape(model.blocks[k], h, f.emb.shape)
             call == [x |-> h, emb |-> f.emb.shape, err |-> r.err,
                      h |-> r.h, skip |-> r.skip, val |-> r.shape]
         IN  IF r.err # "none"
             THEN [err |-> r.err, shape |-> <<>>, calls |-> <<call>>]
             ELSE LET rest == FwBlocksFrom(model, f, k + 1, r.shape)
                  IN  [rest EXCEPT !.calls = <<call>> \o rest.calls]

\* lines 221-225: the prediction
FwPredict(model, f) ==
    IF f.err # "none" THEN f
    ELSE IF WidthError(model.in_dim, f.in.x) # "none" THEN FwRaise(f, "RuntimeError")
    ELSE
    LET r == FwBlocksFrom(model, f, 1, WithWidth(f.in.x, model.hidden_dim))
        g == [f EXCEPT !.blocks = r.calls]
    IN  IF r.err # "none" THEN FwRaise(g, r.err)
        ELSE IF NormError(model, model.hidden_dim, r.shape) # "none"
        THEN FwRaise(g, NormError(model, model.hidden_dim, r.shape))
        ELSE [g EXCEPT !.pred = WithWidth(r.shape, model.in_dim), !.stage = "done"]

\* lines 169-225: forward
ForwardValue(model, in, draw, choice) ==
    FwPredict(model,
        FwSizeFactor(model,
            FwCondition(model, FwTime(model, FwRepeat(model, ForwardEntered(in))), draw, choice)))

----------------------------------------------------------------------------
(* Inputs *)

StrA       == <<65>>                 \* "A"
StrB       == <<66>>                 \* "B"
StrAplusB  == <<65, 43, 66>>         \* "A+B"
StrDMSO    == <<68, 77, 83, 79>>     \* "DMSO"
CellK      == <<75>>                 \* "K"
CellM      == <<77>>                 \* "M"
Batch1     == <<98, 49>>             \* "b1"
Batch2     == <<98, 50>>             \* "b2"
DoseOne    == <<49, 46, 48>>         \* "1.0"
DoseTenth  == <<48, 46, 49>>         \* "0.1"
DoseBad    == <<120>>                \* "x"
GeneNames  == << <<103, 49>>, <<103, 50>> >>   \* var_names: "g1", "g2"

\* an observation with consistent structure metadata: its SMILES is "C"
\* followed by its condition
Obs(condition, control, split, cell_type) ==
    [condition |-> condition, dose |-> DoseOne, control |-> control,
     split |-> split, cell_type |-> cell_type, batch |-> Batch1,
     SMILES |-> <<67>> \o condition]

\* data.uns[degs_key]: the precomputed gene sets; none for ("M", "B")
Uns ==
    LET g1 == GeneNames[1]
        g2 == GeneNames[2]
    IN  (DegKey(CellK, StrA) :> {g1}) @@ (DegKey(CellK, StrB) :> {g2})
        @@ (DegKey(CellK, JQ1Alias) :> {g1, g2}) @@ (DegKey(CellK, StrDMSO) :> {g2})
        @@ (DegKey(CellM, StrA) :> {g2})

\* an AnnData with the given obs rows; row i of X is <<10 i + 1, 10 i + 2>>
Source(obs) ==
    [obs |-> obs,
     X |-> [i \in DOMAIN obs |-> [g \in DOMAIN GeneNames |-> 10 * i + g]],
     var_names |-> GeneNames,
     uns |-> Uns]

\* the sources with at most MaxObs rows drawn from the kinds
SourcesOf(kinds) ==
    {Source(obs) : obs \in UNION {[1..n -> kinds] : n \in 0..MaxObs}}

\* covariate_keys as passed: None, one column name, or a list of names
CovKeysNone == [kind |-> "None", keys |-> <<>>]
CovKeysStr(k) == [kind |-> "str", keys |-> <<k>>]
CovKeysList(ks) == [kind |-> "list", keys |-> ks]

Args(data, pk, dk, ck, idx) ==
    [data |-> data, perturbation_key |-> pk, dose_key |-> dk,
     covariate_keys |-> ck, use_drugs_idx |-> idx]

\* the orders in which the set of drug tokens of line 79 can be iterated
TokenOrders(data, a) ==
    IF a.perturbation_key = "None" \/ a.dose_key = "None" THEN {<<>>}
    ELSE Orders(DrugTokens(Column(data, "condition")))

SplitNames == {"train", "test", "ood", "all"}
ConditionNames == {"control", "treated", "all"}

\* ds, view, out and rna before any call
Unbuilt == [NewSelf EXCEPT !.err = "unbuilt"]
UnbuiltView == [NewView EXCEPT !.err = "unbuilt"]
NoCall == [op |-> "none", arg |-> <<>>, err |-> "none", val |-> <<>>]
Call(res, arg) == [op |-> res.op, arg |-> arg, err |-> res.err, val |-> res.val]

NoForward == [op |-> "none", err |-> "none"]

InitFrom(sources) ==
    /\ source \in sources
    /\ args = (Args("path", "None", "None", CovKeysNone, FALSE))
    /\ ds = Unbuilt
    /\ ds2 = Unbuilt
    /\ view = UnbuiltView
    /\ out = NoCall
    /\ rna = [NewLoader EXCEPT !.err = "unbuilt"]
    /\ net = [err |-> "unbuilt"]
    /\ fw = NoForward

----------------------------------------------------------------------------
(* Actions *)

\* dataset = PertDataset(source, ...) with arguments from pool, once in a run
Construct(pool) ==
    /\ ds.err = "unbuilt"
    /\ \E a \in pool : \E order \in TokenOrders(source, a) :
        /\ args' = a
        /\ ds' = PertDatasetInit(source, a, order)
        /\ ds2' = Unbuilt
        /\ view' = UnbuiltView
        /\ out' = NoCall
        /\ UNCHANGED <<source, rna, net, fw>>

\* a second PertDataset(source, ...) with the same arguments
ConstructAgain ==
    /\ ds.err # "unbuilt"
    /\ ds2.err = "unbuilt"
    /\ \E order \in TokenOrders(source, args) :
           ds2' = PertDatasetInit(source, args, order)
    /\ UNCHANGED <<source, args, ds, view, out, rna, net, fw>>

\* a subset that writes the selected rows back into the index list of the
\* split: self.indices[split] = idx
SubsetInPlace ==
    /\ ds.err = "none"
    /\ \E split \in SplitNames, condition \in ConditionNames :
       \E idx \in Orders(SubsetIndexSet(ds, split, condition)) :
           /\ ds' = [ds EXCEPT !.indices[split] = idx]
           /\ view' = SubPertDatasetInit(ds, idx)
           /\ out' = [op |-> "subset", arg |-> <<split, condition>>,
                      err |-> view'.err, val |-> idx]
    /\ UNCHANGED <<source, args, ds2, rna, net, fw>>

\* view = dataset.subset(split, condition); the list made from the
\* intersection set comes in any order
Subset ==
    /\ ds.err = "none"
    /\ \E split \in SplitNames, condition \in ConditionNames :
       \E idx \in Orders(SubsetIndexSet(ds, split, condition)) :
           /\ view' = SubPertDatasetInit(ds, idx)
           /\ out' = [op |-> "subset", arg |-> <<split, condition>>,
                      err |-> view'.err, val |-> idx]
    /\ UNCHANGED <<source, args, ds, ds2, rna, net, fw>>

\* lines 297-335: load_dataset_splits(...): the PertDataset it constructs
\* (ds), then the five views of the dict literal of lines 324-330, made in
\* the order written, the first exception ending the call
LoadDatasetSplits(pool) ==
    /\ ds.err = "unbuilt"
    /\ \E a \in pool : \E order \in TokenOrders(source, a) :
        LET dataset == PertDatasetInit(source, a, order)
            Idx(split, condition) ==
                IF dataset.err = "none"
                THEN Orders(SubsetIndexSet(dataset, split, condition))
                ELSE {<<>>}
        IN  /\ args' = a
            /\ ds' = dataset
            /\ \E i1 \in Idx("train", "all"), i2 \in Idx("train", "control"),
                  i3 \in Idx("train", "treated"), i4 \in Idx("test", "all"),
                  i5 \in Idx("ood", "all") :
                   LET splits == [training         |-> SubPertDatasetInit(dataset, i1),
                                  training_control |-> SubPertDatasetInit(dataset, i2),
                                  training_treated |-> SubPertDatasetInit(dataset, i3),
                                  test             |-> SubPertDatasetInit(dataset, i4),
                                  ood              |-> SubPertDatasetInit(dataset, i5)]
                   IN  out' = IF dataset.err # "none"
                              THEN Call(Raised("load_dataset_splits", dataset.err), <<>>)
                              ELSE IF \E k \in DOMAIN splits : splits[k].err # "none"
                              THEN Call(Raised("load_dataset_splits",
                                               IF splits.training.err # "none"
                                               THEN splits.training.err
                                               ELSE IF splits.training_control.err # "none"
                                               THEN splits.training_control.err
                                               ELSE IF splits.training_treated.err # "none"
                                               THEN splits.training_treated.err
                                               ELSE IF splits.test.err # "none"
                                               THEN splits.test.err
                                               ELSE splits.ood.err), <<>>)
                              ELSE Call(Returned("load_dataset_splits", splits), <<>>)
    /\ UNCHANGED <<source, ds2, view, rna, net, fw>>

\* dataset[i]
GetItem ==
    /\ ds.err = "none"
    /\ \E i \in 0..MaxObs : out' = Call(DatasetGetItem(ds, i), <<i>>)
    /\ UNCHANGED <<source, args, ds, ds2, view, rna, net, fw>>

\* view[i]
ViewGetItem ==
    /\ view.err = "none"
    /\ \E i \in 0..MaxObs : out' = Call(ViewGetItemValue(view, i), <<i>>)
    /\ UNCHANGED <<source, args, ds, ds2, view, rna, net, fw>>

\* len(dataset), len(view)
LenDataset ==
    /\ ds.err = "none"
    /\ out' = Call(Returned("len", Len(ds.genes)), <<>>)
    /\ UNCHANGED <<source, args, ds, ds2, view, rna, net, fw>>

LenView ==
    /\ view.err = "none"
    /\ out' = Call(Returned("view_len", Len(view.genes)), <<>>)
    /\ UNCHANGED <<source, args, ds, ds2, view, rna, net, fw>>

\* dataset.drug_name_to_idx(name)
DrugNameToIdx(names) ==
    /\ ds.err = "none"
    /\ \E name \in names : out' = Call(DrugNameToIdxValue(ds, name), name)
    /\ UNCHANGED <<source, args, ds, ds2, view, rna, net, fw>>

\* RNAseqLoader(source, layer, covariate_keys, encoder_type=...)
ConstructLoader(keyPool, encoders) ==
    /\ \E keys \in keyPool, enc \in encoders :
           rna' = RNAseqLoaderInit(source, keys, enc)
    /\ UNCHANGED <<source, args, ds, ds2, view, out, net, fw>>

\* compute_size_factor_lognorm(source, layer, id2cov), called on its own
ComputeSizeFactorLognorm(pool) ==
    /\ \E id2cov \in pool :
           out' = Call(ComputeSizeFactorLognormValue(source, id2cov), id2cov)
    /\ UNCHANGED <<source, args, ds, ds2, view, rna, net, fw>>

\* get_timestep_embedding(timesteps, embedding_dim), called on its own
CallTimestepEmbedding(tensors, dims) ==
    /\ \E timesteps \in tensors, embedding_dim \in dims :
           fw' = GetTimestepEmbeddingValue(timesteps, embedding_dim)
    /\ UNCHANGED <<source, args, ds, ds2, view, out, rna, net>>

\* block = ResnetBlock(...), once in a run
ConstructBlock(configs, inits) ==
    /\ net.err = "unbuilt"
    /\ \E c \in configs, init \in inits : net' = ResnetBlockInit(c, init)
    /\ fw' = NoForward
    /\ UNCHANGED <<source, args, ds, ds2, view, out, rna>>

\* a 2-D tensor of the given shape whose entries are v, v + 1, ... along
\* each row, one more per row
Ramp(shape, v) ==
    [shape |-> shape,
     at |-> [i \in 1..shape[1] |-> [k \in 1..shape[2] |-> v + i + k - 2]]]

\* block(x, emb) on the block as constructed
BlockForward(xshapes, embshapes, values) ==
    /\ net.err = "none"
    /\ net.kind = "ResnetBlock"
    /\ \E xshape \in xshapes, embshape \in embshapes, v \in values, u \in values :
           LET r == ResnetBlockForwardShape(net, xshape, embshape)
           IN  fw' = ResnetBlockForwardValue(net, Ramp(xshape, v), embshape,
                         IF r.err = "none" THEN Ramp(r.pre, u).at ELSE <<>>)
    /\ UNCHANGED <<source, args, ds, ds2, view, out, rna, net>>

\* model = MLPTimeStep(...), once in a run
ConstructNet(configs, inits) ==
    /\ net.err = "unbuilt"
    /\ \E c \in configs, init \in inits : net' = MLPTimeStepInit(c, init)
    /\ fw' = NoForward
    /\ UNCHANGED <<source, args, ds, ds2, view, out, rna>>

\* model(x, t, l, y, inference, unconditional, covariate) on the model as
\* constructed. The Bernoulli draw and the random covariate are inputs of the
\* step, and only where the call uses them
Forward(inputs) ==
    /\ net.err = "none"
    /\ net.kind = "MLPTimeStep"
    /\ \E in \in inputs :
        \E draw \in (IF in.inference THEN {1}
                      ELSE BernoulliOutcomes(net.conditioning_probability)) :
        \E choice \in (IF in.covariate = <<>> /\ net.covariate_list # <<>>
                        THEN Range(net.covariate_list) ELSE {""}) :
            fw' = ForwardValue(net, in, draw, choice)
    /\ UNCHANGED <<source, args, ds, ds2, view, out, rna, net>>

----------------------------------------------------------------------------
(* Specifications *)

Splits == {"train", "test", "ood"}

Init ==
    InitFrom(SourcesOf({Obs(ControlName, 1, s, CellK) : s \in Splits}
                       \cup {Obs(StrA, 0, s, CellM) : s \in Splits}))

\* subset reads ds only and replaces view and out, so a state reached by
\* several subset calls is reached by the last of them alone: one call a run
Next ==
    \/ Construct({Args("path", "condition", "dose", ck, idx) :
                     ck \in {CovKeysStr("cell_type"),
                             CovKeysList(<<"batch", "cell_type">>)},
                     idx \in BOOLEAN})
    \/ (view.err = "unbuilt" /\ Subset)
    \/ ViewGetItem
    \/ LenView

Spec == Init /\ [][Next]_vars

\* SpecSplits: load_dataset_splits on the same sources, with either value of
\* use_drugs_idx
NextSplits ==
    LoadDatasetSplits({Args("path", "condition", "dose", ck, idx) :
                          ck \in {CovKeysStr("cell_type"),
                                  CovKeysList(<<"batch", "cell_type">>)},
                          idx \in BOOLEAN})

SpecSplits == Init /\ [][NextSplits]_vars

\* SpecBuild: construction over sources with combined perturbations, control
\* rows under other names, unparsable doses, ambiguous structures and missing
\* gene sets, with every combination of the constructor's arguments, and the
\* calls on the constructed Dataset
BuildKinds ==
    {Obs(ControlName, 1, "train", CellK),
     Obs(StrDMSO, 1, "train", CellK),
     Obs(StrA, 0, "train", CellK),
     Obs(StrB, 0, "ood", CellM),
     Obs(StrAplusB, 0, "train", CellK),
     Obs(JQ1Name, 0, "test", CellK),
     [Obs(StrA, 0, "train", CellK) EXCEPT !.dose = DoseBad],
     [Obs(StrA, 0, "train", CellK) EXCEPT !.SMILES = <<67>>]}

CovKeyPool ==
    {CovKeysNone, CovKeysStr("cell_type"), CovKeysList(<<>>),
     CovKeysList(<<"batch">>), CovKeysList(<<"cell_type", "batch">>),
     CovKeysList(<<"cell_type", "cell_type">>),
     CovKeysList(<<"batch", "cell_type", "batch">>)}

BuildArgs ==
    {Args("path", pk, dk, ck, FALSE) :
        pk \in {"None", "condition"}, dk \in {"None", "dose"}, ck \in CovKeyPool}
    \cup {Args("AnnData", pk, dk, CovKeysStr("cell_type"), TRUE) :
             pk \in {"None", "condition"}, dk \in {"None", "dose"}}

InitBuild == InitFrom(SourcesOf(BuildKinds))

NextBuild ==
    \/ Construct(BuildArgs)
    \/ ConstructAgain
    \/ GetItem
    \/ LenDataset
    \/ DrugNameToIdx({ControlName, StrA, StrB, StrAplusB, JQ1Name, StrDMSO})

SpecBuild == InitBuild /\ [][NextBuild]_vars

LoaderKeyPool ==
    {CovKeysNone, CovKeysList(<<"cell_type">>), CovKeysList(<<"batch", "cell_type">>),
     CovKeysList(<<"batch", "batch">>)}

InitCov ==
    InitFrom(SourcesOf({[Obs(c[1], c[2], "train", ct) EXCEPT !.batch = b] :
                           c \in {<<ControlName, 1>>, <<StrA, 0>>},
                           ct \in {CellK, CellM}, b \in {Batch1, Batch2}}))

NextCov ==
    \/ Construct({Args("path", "condition", "dose", ck, TRUE) :
                     ck \in {CovKeysStr("cell_type"),
                             CovKeysList(<<"cell_type", "batch">>),
                             CovKeysList(<<"batch", "cell_type">>)}})
    \/ ConstructLoader(LoaderKeyPool, {"proportions", "learnt_encoder"})

SpecCov == InitCov /\ [][NextCov]_vars

InitCalls == InitFrom(SourcesOf({Obs(ControlName, 1, "train", CellK), Obs(StrA, 0, "test", CellM)}))

NextCalls ==
    \/ Construct({Args("path", "condition", "dose", CovKeysStr("cell_type"), idx) : idx \in BOOLEAN})
    \/ Subset
    \/ GetItem
    \/ ViewGetItem
    \/ LenDataset
    \/ LenView
    \/ DrugNameToIdx({StrA, StrB})

SpecCalls == InitCalls /\ [][NextCalls]_vars

NextSize ==
    \/ ConstructLoader(LoaderKeyPool, {"proportions"})
    \/ ComputeSizeFactorLognorm(
           {("cell_type" :> Id2Cov(<<CellK, CellM>>)),
            ("batch" :> Id2Cov(<<Batch1, Batch2>>)) @@ ("cell_type" :> Id2Cov(<<CellK>>))})

SpecSize == InitCov /\ [][NextSize]_vars

\* SpecEmb: get_timestep_embedding on timestep tensors of no, one and two
\* dimensions, with even and odd embedding widths
TimeValues == {0, 1}

TimestepTensors ==
    {[shape |-> <<>>, at |-> v] : v \in TimeValues}
    \cup UNION {{[shape |-> <<T>>, at |-> a] : a \in [1..T -> TimeValues]} : T \in 0..MaxT}
    \cup {[shape |-> <<T, 1>>, at |-> [i \in 1..T |-> <<v>>]] :
             T \in 1..MaxT, v \in TimeValues}

\* the states of the network specifications start from no data source
NoSource == Source(<<>>)

InitEmb == InitFrom({NoSource})

NextEmb == CallTimestepEmbedding(TimestepTensors, 0..MaxDim)

SpecEmb == InitEmb /\ [][NextEmb]_vars

\* SpecBlock: a ResnetBlock of every configuration, called right after its
\* construction
BlockConfigs ==
    {[in_dim |-> i, out_dim |-> o, added_dimensions |-> a, dropout |-> d,
      embedding_dim |-> e, normalization |-> n, embed_condition |-> ec] :
        i \in 1..MaxWidth, o \in {<<>>} \cup {<<w>> : w \in 1..MaxWidth},
        a \in 0..1, d \in BOOLEAN, e \in {<<>>, <<MaxWidth>>},
        n \in {"layer", "batch", "none"}, ec \in BOOLEAN}

\* the values Linear's initialisation can leave in a weight and in a bias
LinearInits == {[w0 |-> w, b0 |-> b] : w \in {-1, 1}, b \in {0, 1}}

\* a forward call reads the block and replaces fw only, so a state reached by
\* several calls is reached by the last of them alone: one call a run
NextBlock ==
    \/ ConstructBlock(BlockConfigs, LinearInits)
    \/ (fw.op = "none"
        /\ BlockForward({<<b, w>> : b \in 1..MaxBatch, w \in 1..MaxWidth},
                        {<<b, w>> : b \in 1..MaxBatch, w \in {1, MaxWidth}},
                        {-1, 2}))

SpecBlock == InitEmb /\ [][NextBlock]_vars

NetConfigs ==
    {[in_dim |-> MaxWidth, hidden_dim |-> MaxWidth, dropout |-> FALSE,
      n_blocks |-> nb, model_type |-> mt, embed_time |-> et,
      embed_size_factor |-> esf, covariate_list |-> cl,
      embedding_dim |-> 2, normalization |-> nm,
      conditional |-> cd, embed_condition |-> ec,
      n_cond |-> [v \in Range(cl) |-> MaxWidth],
      multimodal |-> mm, is_binarized |-> FALSE,
      modality_list |-> (IF mm THEN <<"rna", "atac">> ELSE <<>>),
      conditioning_probability |-> p] :
        nb \in 1..MaxBlocks, mt \in {"conditional_latent", "learnt_size_factor"},
        et \in BOOLEAN, esf \in BOOLEAN, cl \in {<<"cell_type">>, <<"cell_type", "batch">>},
        nm \in {"layer", "batch"}, cd \in BOOLEAN, ec \in BOOLEAN,
        mm \in BOOLEAN, p \in {0, DefaultConditioningProbability, 10}}

\* x of B rows; t one shared timestep or one per row, with or without a
\* trailing dimension; l one size factor per row, as a tensor or per modality
ForwardInputs ==
    UNION {
        {[x |-> <<B, MaxWidth>>, t |-> t, l |-> l,
          y |-> [v \in {"cell_type", "batch"} |-> <<B, MaxWidth>>],
          inference |-> inf, unconditional |-> unc, covariate |-> cov] :
            t \in {<<1>>, <<B>>, <<1, 1>>, <<B, 1>>},
            l \in {[is_dict |-> FALSE, shape |-> <<B>>, of |-> <<>>],
                   [is_dict |-> TRUE, shape |-> <<>>,
                    of |-> [m \in Range(<<"rna", "atac">>) |-> <<B, 1>>]]},
            inf \in BOOLEAN, unc \in BOOLEAN, cov \in {<<>>, <<"cell_type">>}} :
        B \in 1..MaxBatch}

\* a forward call reads the model and replaces fw only: one call a run
NextForward ==
    \/ ConstructNet(NetConfigs, {i \in LinearInits : i.w0 = 1 /\ i.b0 = 0})
    \/ (fw.op = "none" /\ Forward(ForwardInputs))

SpecForward == InitEmb /\ [][NextForward]_vars

\* SpecChain: the same models called also with a timestep tensor that has
\* more rows than x, so that the skip path and the second projection of a
\* block can get different shapes
NextChain ==
    \/ ConstructNet(NetConfigs, {i \in LinearInits : i.w0 = 1 /\ i.b0 = 0})
    \/ (fw.op = "none"
        /\ Forward(ForwardInputs
                   \cup {[i EXCEPT !.t = <<i.x[1] + 1>>] : i \in ForwardInputs}))

SpecChain == InitEmb /\ [][NextChain]_vars

----------------------------------------------------------------------------
(* Properties *)

\* the exceptions that report an invalid configuration: the ValueError and
\* AssertionError raised by the checks of __init__, and the error of the
\* structure lookup
ConfigurationErrors == {"ValueError", "AssertionError", "ConfigurationError"}

Constructed == ds.err # "unbuilt"

\* C1: after subset(split, condition) the rows selected are exactly the rows
\* that are both in the precomputed index list of the split and in the one of
\* the condition, each once
SubsetIsIntersection ==
    out.op = "subset" =>
        LET inSplit == {ds.indices[out.arg[1]][k] : k \in DOMAIN ds.indices[out.arg[1]]}
            inCond  == {ds.indices[out.arg[2]][k] : k \in DOMAIN ds.indices[out.arg[2]]}
        IN  /\ \A r \in 0..(Len(source.obs) - 1) :
                   (\E k \in DOMAIN view.idx : view.idx[k] = r) <=> (r \in inSplit /\ r \in inCond)
            /\ \A k \in DOMAIN view.idx : view.idx[k] \in 0..(Len(source.obs) - 1)
            /\ \A j, k \in DOMAIN view.idx : j # k => view.idx[j] # view.idx[k]
            /\ out.val = view.idx

\* C1 witness: a subset whose split and condition lists both hold a row
\* that the other lacks, with a non-empty selection
SubsetIsIntersectionWitness ==
    /\ out.op = "subset"
    /\ out.arg = <<"train", "control">>
    /\ view.err = "none"
    /\ Len(view.idx) >= 1
    /\ Len(ds.indices["train"]) > Len(view.idx)
    /\ Len(ds.indices["control"]) > Len(view.idx)

\* C2: every field of view[i] is the field of dataset[L[i]], L being the
\* index list of the view
ViewItemIsDatasetItem ==
    (out.op = "view_getitem" /\ out.err = "none") =>
        out.val = DatasetGetItem(ds, view.idx[out.arg[1] + 1]).val

\* C3: with perturbation_key set and dose_key None the constructor raises
\* before anything is read from the source
MissingDoseKeyRaisesBeforeRead ==
    (Constructed /\ args.perturbation_key # "None" /\ args.dose_key = "None") =>
        (ds.err \in ConfigurationErrors /\ ds.io = <<>>)

\* a perturbation string with "+" in it names more than one drug
NamesSeveralDrugs(condition) == \E k \in DOMAIN condition : condition[k] = 43

\* C4: with a perturbation column in which some observation names more than
\* one drug, construction fails with a configuration error and no drug index
\* tensor is built
MultiDrugRejected ==
    (/\ Constructed
     /\ args.perturbation_key # "None"
     /\ \E i \in DOMAIN source.obs : NamesSeveralDrugs(source.obs[i].condition)) =>
        (ds.err \in ConfigurationErrors /\ ds.st["drugs_idx"] = "unset")

\* C4 witness: the single-perturbation assertion itself rejected a source
\* whose drugs all resolve to a structure
MultiDrugRejectedWitness ==
    /\ ds.err = "AssertionError"
    /\ ds.st["canon_smiles_unique_sorted"] = "val"
    /\ ds.max_num_perturbations = 2
    /\ \E i \in DOMAIN source.obs : NamesSeveralDrugs(source.obs[i].condition)

\* the pieces of a perturbation string between its "+" signs and its ends
TokensOf(str) ==
    {SubSeq(str, a, b) : <<a, b>> \in
        {w \in (1..(Len(str) + 1)) \X (0..Len(str)) :
            /\ w[1] <= w[2] + 1
            /\ (w[1] = 1 \/ str[w[1] - 1] = 43)
            /\ (w[2] = Len(str) \/ str[w[2] + 1] = 43)
            /\ \A k \in w[1]..w[2] : str[k] # 43}}

\* C5: the drug vocabulary holds exactly the tokens of all perturbation
\* strings, in strictly ascending lexicographic order, and each drug's index
\* is its position, so the indices are 0..N-1
VocabularyIsSortedTokens ==
    ds.st["_drugs_name_to_idx"] = "val" =>
        LET v == ds.drugs_names_unique_sorted
        IN  /\ {v[k] : k \in DOMAIN v} =
                   UNION {TokensOf(source.obs[i].condition) : i \in DOMAIN source.obs}
            /\ \A j, k \in DOMAIN v : j < k => StrLess(v[j], v[k])
            /\ DOMAIN ds.drugs_name_to_idx = {v[k] : k \in DOMAIN v}
            /\ \A k \in DOMAIN v : ds.drugs_name_to_idx[v[k]] = k - 1

\* C5 witness: a vocabulary of three drugs or more, some of them split off a
\* combined string, from rows that are not in sorted order
VocabularyIsSortedTokensWitness ==
    /\ ds.st["_drugs_name_to_idx"] = "val"
    /\ Len(ds.drugs_names_unique_sorted) >= 3
    /\ Len(source.obs) >= 2
    /\ source.obs[1].condition = ControlName
    /\ NamesSeveralDrugs(source.obs[2].condition)

\* C6: name -> index -> name and index -> name -> index are the identity on
\* the vocabulary and on 0..N-1, also for the index a call returned
DrugIndexRoundTrip ==
    /\ ds.st["drug_dict"] = "val" =>
        LET v == ds.drugs_names_unique_sorted
        IN  /\ \A k \in DOMAIN v :
                   LET r == DrugNameToIdxValue(ds, v[k])
                   IN  /\ r.err = "none"
                       /\ r.val \in DOMAIN ds.drug_dict
                       /\ ds.drug_dict[r.val] = v[k]
            /\ \A i \in 0..(Len(v) - 1) :
                   /\ i \in DOMAIN ds.drug_dict
                   /\ DrugNameToIdxValue(ds, ds.drug_dict[i]).err = "none"
                   /\ DrugNameToIdxValue(ds, ds.drug_dict[i]).val = i
    /\ (out.op = "drug_name_to_idx" /\ out.err = "none") =>
           (out.val \in DOMAIN ds.drug_dict /\ ds.drug_dict[out.val] = out.arg)

\* C6 witness: drug_name_to_idx returned a non-zero index that maps back
DrugIndexRoundTripWitness ==
    /\ out.op = "drug_name_to_idx"
    /\ out.err = "none"
    /\ out.val >= 1
    /\ ds.drug_dict[out.val] = out.arg

\* C7: two Datasets constructed from the same source with the same arguments
\* have the same drug vocabulary, the same covariate encodings and the same
\* per-observation drug and covariate indices, and end the same way
ConstructionIsDeterministic ==
    (Constructed /\ ds2.err # "unbuilt") =>
        /\ ds2.err = ds.err
        /\ ds2.drugs_names_unique_sorted = ds.drugs_names_unique_sorted
        /\ ds2.drugs_name_to_idx = ds.drugs_name_to_idx
        /\ ds2.drug_dict = ds.drug_dict
        /\ ds2.drugs_idx = ds.drugs_idx
        /\ ds2.covariate_names_unique = ds.covariate_names_unique
        /\ ds2.atomic_covars_dict = ds.atomic_covars_dict
        /\ ds2.covariates = ds.covariates

\* C7 witness: two successful constructions with three drugs in the vocabulary
ConstructionIsDeterministicWitness ==
    /\ ds.err = "none"
    /\ ds2.err = "none"
    /\ Len(ds.drugs_names_unique_sorted) >= 3
    /\ ds2.drugs_idx = ds.drugs_idx

\* C8: a covariate key list naming a key twice makes construction fail with a
\* configuration error, raised by the duplicate check when the perturbation
\* attributes were prepared, and none of the covariate encodings is built
DuplicateKeysRejected ==
    (/\ Constructed
     /\ args.covariate_keys.kind = "list"
     /\ \E j, k \in DOMAIN args.covariate_keys.keys :
            j # k /\ args.covariate_keys.keys[j] = args.covariate_keys.keys[k]) =>
        /\ ds.err \in ConfigurationErrors
        /\ (ds.st["dosages"] = "val" \/ args.perturbation_key = "None") => ds.err = "ValueError"
        /\ \A a \in {"covariate_names", "covariate_names_unique",
                     "atomic_covars_dict", "covariates"} : ds.st[a] = "unset"

\* C8 witness: the duplicate check rejected a list whose repeated key is not
\* adjacent, after the perturbation attributes were prepared
DuplicateKeysRejectedWitness ==
    /\ ds.err = "ValueError"
    /\ ds.st["dosages"] = "val"
    /\ args.covariate_keys = CovKeysList(<<"batch", "cell_type", "batch">>)
    /\ ds.st["covariates"] = "unset"

\* C9: for every configured covariate the categories are the distinct raw
\* values in strictly ascending order, category number p (from 0) is encoded
\* as index p (RNAseqLoader) or as the one-hot row with its 1 at p
\* (PertDataset), and every observation carries the encoding of its own value
CovariateIndexIsSortedPosition ==
    /\ ds.st["covariates"] = "val" =>
        \A j \in DOMAIN ds.covariate_keys :
            LET key == ds.covariate_keys[j]
                u   == ds.covariate_names_unique[key]
            IN  /\ {u[p] : p \in DOMAIN u} =
                       {source.obs[i][key] : i \in DOMAIN source.obs}
                /\ \A p, q \in DOMAIN u : p < q => StrLess(u[p], u[q])
                /\ \A p \in DOMAIN u :
                       ds.atomic_covars_dict[key][u[p]] =
                           [q \in DOMAIN u |-> IF q = p THEN 1 ELSE 0]
                /\ \A i \in DOMAIN source.obs :
                       ds.covariates[j][i] =
                           [q \in DOMAIN u |-> IF u[q] = source.obs[i][key] THEN 1 ELSE 0]
    /\ rna.err = "none" =>
        \A key \in DOMAIN rna.id2cov :
            LET m   == rna.id2cov[key]
                raw == {source.obs[i][key] : i \in DOMAIN source.obs}
            IN  /\ DOMAIN m = raw
                /\ {m[n] : n \in raw} = 0..(Cardinality(raw) - 1)
                /\ \A n1, n2 \in raw : StrLess(n1, n2) => m[n1] < m[n2]
                /\ \A i \in DOMAIN source.obs :
                       rna.Y_cov[key][i] = m[source.obs[i][key]]

\* C9 witness: both loaders encoded a cell_type column whose first two rows
\* are in descending order
CovariateIndexIsSortedPositionWitness ==
    /\ ds.err = "none"
    /\ rna.err = "none"
    /\ Len(source.obs) >= 2
    /\ source.obs[1].cell_type = CellM
    /\ source.obs[2].cell_type = CellK
    /\ "cell_type" \in DOMAIN rna.id2cov
    /\ rna.Y_cov["cell_type"][1] = 1
    /\ ds.covariates[1][1] = <<0, 1>>

\* C10: an observation whose control flag is 1 gets an all-false mask and no
\* gene set is looked up for it, whatever its perturbation name
ControlRowsGetEmptyMask ==
    Constructed =>
        \A i \in DOMAIN source.obs :
            source.obs[i].control = 1 =>
                /\ \A k \in DOMAIN ds.lookups : ds.lookups[k] # i - 1
                /\ ds.err = "none" => \A g \in DOMAIN ds.degs[i] : ds.degs[i][g] = 0

\* the exceptions of a failed lookup: Python's LookupError and its subclasses
LookupErrors == {"LookupError", "KeyError", "IndexError"}

\* the key under which the gene set of an observation is precomputed
GeneSetKey(o) ==
    o.cell_type \o <<95>> \o (IF o.condition = JQ1Name THEN JQ1Alias ELSE o.condition)
        \o <<95, 49, 46, 48>>

\* the observations (1-based) that name a drug other than "control" for which
\* the source holds no precomputed gene set
WithoutGeneSet ==
    {i \in DOMAIN source.obs :
        /\ source.obs[i].condition # ControlName
        /\ GeneSetKey(source.obs[i]) \notin DOMAIN source.uns}

NumericErrors == {"NumericError", "ArithmeticError", "ZeroDivisionError", "FloatingPointError"}

\* C12: a call of compute_size_factor_lognorm with a category that no
\* observation has raises a numeric error, and no mean or standard deviation
\* it returns, to its caller or to the loader, is NaN
SizeFactorStatisticsAreNumbers ==
    /\ out.op = "compute_size_factor_lognorm" =>
        /\ (\E k \in DOMAIN out.arg : \E n \in DOMAIN out.arg[k] :
                \A i \in DOMAIN source.obs : source.obs[i][k] # n) =>
               out.err \in NumericErrors
        /\ out.err = "none" =>
               \A k \in DOMAIN out.val.mean : \A n \in DOMAIN out.val.mean[k] :
                   out.val.mean[k][n] # "nan" /\ out.val.sd[k][n] # "nan"
    /\ rna.err = "none" =>
        \A k \in DOMAIN rna.log_size_factor_mu : \A n \in DOMAIN rna.log_size_factor_mu[k] :
            rna.log_size_factor_mu[k][n] # "nan" /\ rna.log_size_factor_sd[k][n] # "nan"

\* C13: a View that was created holds the index list and its Dataset in
\* attributes of its own, and holds no expression rows of its own
ViewIsIndexOnly ==
    (out.op = "subset" /\ view.err = "none") =>
        /\ \E a \in view.built : view.holds[a] = "indices"
        /\ \E a \in view.built : view.holds[a] = "dataset"
        /\ "genes" \in view.built => (view.holds["genes"] # "rows" /\ view.genes = <<>>)

\* C14: after any sequence of subset, __getitem__, __len__ and
\* drug_name_to_idx calls on the Dataset and on its Views, the Dataset is what
\* the constructor left (tensors, index lists, vocabularies), and the last
\* call returned what the same call returns on the Dataset as constructed
\* (subset: the same rows, the order of a set aside)
DatasetIsNeverMutated ==
    ds.err = "none" =>
        \E order \in TokenOrders(source, args) :
            LET d0 == PertDatasetInit(source, args, order)
            IN  /\ ds = d0
                /\ ds.genes = source.X
                /\ ds.indices = Indices(source)
                /\ out.op = "getitem" => out = Call(DatasetGetItem(d0, out.arg[1]), out.arg)
                /\ out.op = "len" => out.val = Len(source.obs)
                /\ out.op = "drug_name_to_idx" =>
                       out = Call(DrugNameToIdxValue(d0, out.arg), out.arg)
                /\ out.op = "subset" =>
                       /\ Range(out.val) = SubsetIndexSet(d0, out.arg[1], out.arg[2])
                       /\ Len(out.val) = Cardinality(Range(out.val))
                /\ view.err # "unbuilt" => view = SubPertDatasetInit(d0, view.idx)
                /\ out.op = "view_getitem" =>
                       out = Call(ViewGetItemValue(SubPertDatasetInit(d0, view.idx),
                                                   out.arg[1]), out.arg)
                /\ out.op = "view_len" => out.val = Len(view.idx)

\* C14 witness: after a View of two rows was made, the second row of the
\* Dataset was read from the Dataset
DatasetIsNeverMutatedWitness ==
    /\ ds.err = "none"
    /\ view.err = "none"
    /\ Len(view.idx) = 2
    /\ out.op = "getitem"
    /\ out.arg = <<1>>
    /\ out.err = "none"

\* C15: drug_name_to_idx called with a name that is not in the vocabulary
\* raises ValueError, as its docstring says, and returns no index
UnknownDrugRaisesValueError ==
    (/\ out.op = "drug_name_to_idx"
     /\ \A k \in DOMAIN ds.drugs_names_unique_sorted :
            ds.drugs_names_unique_sorted[k] # out.arg) =>
        out.err = "ValueError"

\* C18: for a one-dimensional tensor of T timesteps and an even width D,
\* get_timestep_embedding returns T rows of D columns; in row i column j of
\* the first D/2 is the sine and column j + D/2 the cosine of the same
\* multiple of 1000 times timestep i, the D/2 multiples being different from
\* one another; an odd D or a tensor that is not one-dimensional raises
\* AssertionError and returns nothing
TimestepEmbeddingIsSinesThenCosines ==
    fw.op = "get_timestep_embedding" =>
        LET D == fw.embedding_dim
            h == D \div 2
        IN  IF Len(fw.timesteps.shape) = 1 /\ D % 2 = 0
            THEN /\ fw.err = "none"
                 /\ fw.val.shape = <<fw.timesteps.shape[1], D>>
                 /\ Len(fw.val.at) = fw.timesteps.shape[1]
                 /\ \A i \in DOMAIN fw.val.at :
                        /\ Len(fw.val.at[i]) = D
                        /\ \A j \in 1..h :
                               /\ fw.val.at[i][j].f = "sin"
                               /\ fw.val.at[i][j + h].f = "cos"
                               /\ fw.val.at[i][j].t = 1000 * fw.timesteps.at[i]
                               /\ fw.val.at[i][j + h].t = 1000 * fw.timesteps.at[i]
                               /\ fw.val.at[i][j].w = fw.val.at[i][j + h].w
                               /\ \A k \in 1..h :
                                      k # j => fw.val.at[i][k].w # fw.val.at[i][j].w
            ELSE fw.err = "AssertionError" /\ fw.val = <<>>

\* C18 witness: four timesteps, not all equal, embedded in eight columns
TimestepEmbeddingIsSinesThenCosinesWitness ==
    /\ fw.op = "get_timestep_embedding"
    /\ fw.err = "none"
    /\ fw.val.shape = <<4, 8>>
    /\ fw.timesteps.at[1] = 0
    /\ fw.timesteps.at[4] = 1
    /\ fw.val.at[4][8] = [f |-> "cos", t |-> 1000, w |-> <<-4, 1>>]
    /\ fw.val.at[4][2] = [f |-> "sin", t |-> 1000, w |-> <<-4, 3>>]

\* C17: a ResnetBlock called right after its construction, whatever the
\* input and the conditioning, gets all zeros from its second projection, and
\* returns its skip path: the input itself when in_dim = out_dim, the skip
\* projection of the input otherwise
FreshBlockIsSkipPath ==
    (fw.op = "block_forward" /\ fw.err = "none") =>
        /\ \A i \in DOMAIN fw.h2 : \A o \in DOMAIN fw.h2[i] : fw.h2[i][o] = 0
        /\ Len(fw.h2) = fw.x.shape[1]
        /\ \A i \in DOMAIN fw.h2 : Len(fw.h2[i]) = net.out_dim
        /\ IF net.in_dim = net.out_dim THEN fw.val = fw.x
           ELSE /\ fw.val.shape = <<fw.x.shape[1], net.out_dim>>
                /\ \A i \in 1..fw.x.shape[1] : \A o \in 1..net.out_dim :
                       fw.val.at[i][o] =
                           net.skip_proj.bias[o] + Dot(fw.x.at[i], net.skip_proj.weight[o])

\* C17 witness: a block with a skip projection and a non-zero initial bias,
\* conditioned by concatenation, returned a tensor of two rows with a
\* non-zero entry
FreshBlockIsSkipPathWitness ==
    /\ fw.op = "block_forward"
    /\ fw.err = "none"
    /\ net.in_dim = 2
    /\ net.out_dim = 1
    /\ ~net.embed_condition
    /\ net.added_dimensions = 1
    /\ net.skip_proj.bias[1] = 1
    /\ fw.x.shape = <<2, 2>>
    /\ fw.val.at[2][1] # 0

\* the forward calls that reached the conditioning of line 186
ReachedConditioning == fw.stage \in {"conditioned", "sized", "done"}

\* the covariate conditioning applies in the call
ConditioningApplies ==
    net.conditional /\ fw.is_conditioned = 1 /\ ~fw.in.unconditional

SharedTimestepIsEmbeddedForEveryRow ==
    (fw.op = "forward" /\ net.embed_time /\ fw.in.t[1] = 1) =>
        /\ fw.t # <<>>
        /\ fw.t[1] = fw.in.x[1]
        /\ fw.time_emb # <<>>
        /\ fw.time_emb[1] = fw.in.x[1]

\* C20: a forward call in which the covariate conditioning applies on a model
\* that does not embed the condition raises NotImplementedError and returns
\* no prediction
NonEmbeddedConditioningRaises ==
    (fw.op = "forward" /\ ReachedConditioning /\ ConditioningApplies
        /\ ~net.embed_condition) =>
        fw.err = "NotImplementedError" /\ fw.pred = <<>>

\* C20 witness: a training call whose draw succeeded, on a conditional model
\* without condition embedding, raised NotImplementedError
NonEmbeddedConditioningRaisesWitness ==
    /\ fw.op = "forward"
    /\ ~fw.in.inference
    /\ fw.draws = 1
    /\ fw.is_conditioned = 1
    /\ net.conditional
    /\ ~net.embed_condition
    /\ ~fw.in.unconditional
    /\ fw.err = "NotImplementedError"
    /\ fw.pred = <<>>

\* C21: in every block called by a forward call, the skip-adjusted input is
\* the input itself, or its skip projection when its width is not out_dim; a
\* block returns only when its second projection gave a tensor of exactly
\* that shape, and raises AssertionError instead of adding the two when the
\* shapes differ; each block is given what the block before it returned, and
\* a call that returns a prediction went through every one of the n_blocks
\* blocks
BlockShapesAgreeBeforeSkipAddition ==
    fw.op = "forward" =>
        /\ \A k \in DOMAIN fw.blocks :
               LET b == fw.blocks[k]
               IN  /\ b.skip # <<>> =>
                          b.skip = IF b.x[2] # net.blocks[k].out_dim
                                   THEN WithWidth(b.x, net.blocks[k].out_dim)
                                   ELSE b.x
                   /\ b.err = "none" => b.h # <<>> /\ b.h = b.skip /\ b.val = b.h
                   /\ (b.skip # <<>> /\ b.h # b.skip) =>
                          b.err = "AssertionError" /\ b.val = <<>>
                   /\ k < Len(fw.blocks) =>
                          b.err = "none" /\ fw.blocks[k + 1].x = b.val
        /\ fw.stage = "done" => Len(fw.blocks) = Len(net.blocks)
        /\ (fw.blocks # <<>> /\ fw.blocks[Len(fw.blocks)].err # "none") =>
               fw.err = fw.blocks[Len(fw.blocks)].err /\ fw.pred = <<>>

\* C21 witness: a forward call on a model of two blocks returned a
\* prediction for two rows, both blocks having passed the check
BlockShapesAgreeBeforeSkipAdditionWitness ==
    /\ fw.op = "forward"
    /\ fw.stage = "done"
    /\ Len(net.blocks) = 2
    /\ Len(fw.blocks) = 2
    /\ fw.blocks[2].err = "none"
    /\ fw.blocks[2].h = <<2, MaxWidth>>
    /\ fw.blocks[2].skip = <<2, MaxWidth>>
    /\ fw.pred = <<2, MaxWidth>>

\* C22: whatever the flags, the conditioning tensor a forward call passes to
\* each of its blocks has the width the block was constructed for:
\* embedding_dim * 4 columns when the block projects and adds it
\* (embed_condition), and added_dimensions columns when the block
\* concatenates it
ConditioningWidthMatchesBlocks ==
    (fw.op = "forward" /\ fw.blocks # <<>>) =>
        \A k \in DOMAIN fw.blocks :
            LET emb == fw.blocks[k].emb
            IN  IF net.embed_condition
                THEN emb[Len(emb)] = net.embedding_dim * EmbeddingUpsample
                ELSE emb[Len(emb)] = net.added_dimensions

\* C23: a call of get_timestep_embedding leaves the tensor it is given as it
\* was, so that a second call on the same tensor returns the same embedding
TimestepsAreLeftUnchanged ==
    (fw.op = "get_timestep_embedding" /\ fw.err = "none") =>
        /\ fw.after = fw.timesteps
        /\ GetTimestepEmbeddingValue(fw.after, fw.embedding_dim).val = fw.val

\* the views load_dataset_splits returns: key, split and condition
SplitViews ==
    {<<"training", "train", "all">>, <<"training_control", "train", "control">>,
     <<"training_treated", "train", "treated">>, <<"test", "test", "all">>,
     <<"ood", "ood", "all">>}

\* C24: load_dataset_splits on a source with a control observation from
\* which the Dataset can be constructed, with either value of use_drugs_idx,
\* returns exactly the five
\* views training, training_control, training_treated, test and ood, each the
\* subset of its split and condition of the one Dataset, and every row of
\* every view can be indexed for its y_drug label
SplitsAreFiveIndexableViews ==
    (out.op = "load_dataset_splits" /\ ds.err = "none"
        /\ \E i \in DOMAIN source.obs : source.obs[i].control = 1) =>
        /\ out.err = "none"
        /\ DOMAIN out.val = {c[1] : c \in SplitViews}
        /\ \A c \in SplitViews :
               LET v == out.val[c[1]]
               IN  /\ v.err = "none"
                   /\ Range(v.idx) = SubsetIndexSet(ds, c[2], c[3])
                   /\ v.genes = IndxList(ds.genes, v.idx)
                   /\ \A i \in 0..(Len(v.genes) - 1) :
                          /\ ViewGetItemValue(v, i).err = "none"
                          /\ ViewGetItemValue(v, i).val.y_drug
                                 = <<ds.drugs_idx[v.idx[i + 1] + 1],
                                     ds.dosages[v.idx[i + 1] + 1]>>

\* C25: PertDataset constructed with perturbation_key=None and a valid list
\* of covariate keys from a source that is not empty completes without error,
\* with num_drugs = 0, no drug vocabulary, and the six index sets all,
\* control, treated, train, test and ood
NoPerturbationModeConstructs ==
    (/\ ds.err # "unbuilt"
     /\ args.perturbation_key = "None"
     /\ args.covariate_keys.kind = "list"
     /\ args.covariate_keys.keys # <<>>
     /\ Len(args.covariate_keys.keys) = Cardinality(Range(args.covariate_keys.keys))
     /\ source.obs # <<>>) =>
        /\ ds.err = "none"
        /\ ds.num_drugs = 0
        /\ ds.st["drugs_names_unique_sorted"] = "none"
        /\ ds.st["indices"] = "val"
        /\ DOMAIN ds.indices = {"all", "control", "treated", "train", "test", "ood"}

====
